---- MODULE Spec2Model ----
(***************************************************************************)
(* Energy-deposition aggregation and PSF derivation of EBeamSim:           *)
(* SteppingAction -> EventAction -> RunAction, sequential and              *)
(* multithreaded, with the radial / depth binning functions.               *)
(*                                                                         *)
(* Numbers.  Lengths are integers on a grid; the program's MIN_RADIUS,     *)
(* MAX_RADIUS and bin counts are scaled down so that every quantity the    *)
(* code computes with log/exp is an exact integer comparison:              *)
(*   MAX_RADIUS / MIN_RADIUS = LogStepRatio ^ NUM_RADIAL_BINS,             *)
(* hence exp(logMin + i*logStep) = MIN_RADIUS * LogStepRatio^i.            *)
(* Energies are integers in units of 0.005 eV.  A G4double that may be NaN *)
(* or +-Inf is a tagged pair (see "extended numbers").                     *)
(***************************************************************************)
EXTENDS Integers, Sequences, FiniteSets, TLC

\* ------------------------------------------------------------------ sizes
\* EBL::PSF::NUM_RADIAL_BINS (150 in the program), scaled down.
NUM_RADIAL_BINS == 4
\* EventAction::NUM_DEPTH_BINS / numDepthBins (100 in the program), scaled down.
NUM_DEPTH_BINS == 3
\* EBL::PSF::USE_LOG_BINNING
USE_LOG_BINNING == TRUE
\* EBL::PSF::MIN_RADIUS in grid units.
MIN_RADIUS == 2
\* exp(logStep): the ratio of one logarithmic bin's outer to inner bound.
LogStepRatio == 2

RECURSIVE Pow(_, _)
Pow(b, e) == IF e = 0 THEN 1 ELSE b * Pow(b, e - 1)

\* EBL::PSF::MAX_RADIUS in grid units.
MAX_RADIUS == MIN_RADIUS * Pow(LogStepRatio, NUM_RADIAL_BINS)

RadialBins == 0 .. (NUM_RADIAL_BINS - 1)
DepthBins == 0 .. (NUM_DEPTH_BINS - 1)

\* ---------------------------------------------------------------- binning
\* static_cast<G4int>(log(radius/MIN) / log(MAX/MIN) * m) for MIN <= radius:
\* the largest b with (MAX/MIN)^b <= (radius/MIN)^m, compared as integers.
FloorLogRatioTimes(radius, m) ==
    LET ratio == MAX_RADIUS \div MIN_RADIUS
        ok(b) == Pow(ratio, b) * Pow(MIN_RADIUS, m) <= Pow(radius, m)
    IN  CHOOSE b \in 0 .. m : ok(b) /\ (b = m \/ ~ok(b + 1))

\* A plausible slip: the index scaled by NUM_RADIAL_BINS instead of
\* NUM_RADIAL_BINS - 1 (what the comment in the code says).
GetLogBinScaledByN(radius) ==
    IF radius <= 0 THEN -1
    ELSE IF radius < MIN_RADIUS THEN 0
    ELSE IF radius >= MAX_RADIUS THEN NUM_RADIAL_BINS - 1
    ELSE LET bin == FloorLogRatioTimes(radius, NUM_RADIAL_BINS)
         IN  IF bin < 0 THEN 0
             ELSE IF bin >= NUM_RADIAL_BINS THEN NUM_RADIAL_BINS - 1
             ELSE bin

\* EventAction::GetLogBin
GetLogBin(radius) ==
    IF ~USE_LOG_BINNING
    THEN LET bin == (radius * NUM_RADIAL_BINS) \div MAX_RADIUS
         IN  IF bin >= NUM_RADIAL_BINS THEN NUM_RADIAL_BINS - 1 ELSE bin
    ELSE IF radius <= 0 THEN -1
    ELSE IF radius < MIN_RADIUS THEN 0
    ELSE IF radius >= MAX_RADIUS THEN NUM_RADIAL_BINS - 1
    ELSE LET bin == FloorLogRatioTimes(radius, NUM_RADIAL_BINS - 1)
         IN  IF bin < 0 THEN 0
             ELSE IF bin >= NUM_RADIAL_BINS THEN NUM_RADIAL_BINS - 1
             ELSE bin

\* A plausible slip: bin 0 starting at MIN_RADIUS like every other bin.
GetBinBoundariesHoleAtAxis(bin) ==
    IF bin < NUM_RADIAL_BINS
    THEN <<MIN_RADIUS * Pow(LogStepRatio, bin), MIN_RADIUS * Pow(LogStepRatio, bin + 1)>>
    ELSE <<MAX_RADIUS, MAX_RADIUS>>

\* RunAction::GetBinBoundaries: <<rInner, rOuter>>
GetBinBoundaries(bin) ==
    IF ~USE_LOG_BINNING
    THEN <<(bin * MAX_RADIUS) \div NUM_RADIAL_BINS,
           ((bin + 1) * MAX_RADIUS) \div NUM_RADIAL_BINS>>
    ELSE IF bin = 0
    THEN <<0, MIN_RADIUS * LogStepRatio>>
    ELSE IF bin < NUM_RADIAL_BINS
    THEN <<MIN_RADIUS * Pow(LogStepRatio, bin), MIN_RADIUS * Pow(LogStepRatio, bin + 1)>>
    ELSE <<MAX_RADIUS, MAX_RADIUS>>

\* minDepth, maxDepth of EventAction::GetDepthBin (-50 um, +150 nm), scaled down.
minDepth == -4
maxDepth == 2
depthRange == maxDepth - minDepth

\* a plausible slip: the index computed inside the window is not clamped
GetDepthBinUnclamped(z) ==
    IF z < minDepth THEN 0
    ELSE IF z > maxDepth THEN NUM_DEPTH_BINS - 1
    ELSE ((z - minDepth) * NUM_DEPTH_BINS) \div depthRange

\* EventAction::GetDepthBin, for a finite z
GetDepthBin(z) ==
    IF z < minDepth THEN 0
    ELSE IF z > maxDepth THEN NUM_DEPTH_BINS - 1
    ELSE LET bin == ((z - minDepth) * NUM_DEPTH_BINS) \div depthRange
         IN  IF bin < 0 THEN 0
             ELSE IF bin >= NUM_DEPTH_BINS THEN NUM_DEPTH_BINS - 1
             ELSE bin

\* RunAction::GetBinRadius returns exp(logCenter), which is
\* MIN_RADIUS * LogStepRatio^bin * sqrt(LogStepRatio); this is its square.
GetBinRadiusSquared(bin) ==
    IF bin < 0 THEN 0
    ELSE IF bin >= NUM_RADIAL_BINS THEN MAX_RADIUS * MAX_RADIUS
    ELSE IF ~USE_LOG_BINNING
    THEN (((2 * bin + 1) * MAX_RADIUS) \div (2 * NUM_RADIAL_BINS))
         * (((2 * bin + 1) * MAX_RADIUS) \div (2 * NUM_RADIAL_BINS))
    ELSE MIN_RADIUS * MIN_RADIUS * Pow(LogStepRatio, 2 * bin + 1)

\* ------------------------------------------------------- extended numbers
\* A G4double is <<"num", n>>, <<"nan", 0>>, <<"inf", 1>> or <<"inf", -1>>.
Num(n) == <<"num", n>>
NaN == <<"nan", 0>>
PosInf == <<"inf", 1>>
NegInf == <<"inf", -1>>
IsNaN(v) == v[1] = "nan"
IsInf(v) == v[1] = "inf"
IsNum(v) == v[1] = "num"
\* a < b on G4double; every comparison with NaN is false
Less(a, b) ==
    IF IsNaN(a) \/ IsNaN(b) THEN FALSE
    ELSE IF IsNum(a) /\ IsNum(b) THEN a[2] < b[2]
    ELSE IF IsInf(a) /\ IsInf(b) THEN a[2] < b[2]
    ELSE IF IsInf(a) THEN a[2] < 0
    ELSE b[2] > 0
LessEq(a, b) == Less(a, b) \/ (~IsNaN(a) /\ a = b)

\* the largest grid radius any input reaches
MaxGridRadius == 12 * MAX_RADIUS
\* sqrt on the grid (the inputs are chosen so that it is exact)
Sqrt(n) == CHOOSE k \in 0 .. MaxGridRadius : k * k <= n /\ n < (k + 1) * (k + 1)

\* std::sqrt(x * x + y * y) on G4double
Radius(x, y) ==
    IF IsNaN(x) \/ IsNaN(y) THEN NaN
    ELSE IF IsInf(x) \/ IsInf(y) THEN PosInf
    ELSE Num(Sqrt(x[2] * x[2] + y[2] * y[2]))

\* a * 0.5 + b * 0.5 on G4double (the finite inputs have an even sum)
Half(a, b) ==
    IF IsNaN(a) \/ IsNaN(b) THEN NaN
    ELSE IF IsInf(a) /\ IsInf(b) THEN (IF a[2] = b[2] THEN a ELSE NaN)
    ELSE IF IsInf(a) THEN a
    ELSE IF IsInf(b) THEN b
    ELSE Num((a[2] + b[2]) \div 2)

\* ------------------------------------------------------------ model sizes
\* worker threads of a multithreaded run
NumWorkers == 2
\* runs (/run/beamOn) the model follows
MaxRuns == 2
\* events over all runs and threads
MaxEvents == 2
\* steps over all events
MaxSteps == 2

\* the master thread; in sequential mode it is the only thread
Master == 0
Workers == 1 .. NumWorkers
\* no thread: the value of a free mutex
NoThread == 0 - 1
\* EBL::Beam::DEFAULT_ENERGY, in keV
DEFAULT_ENERGY == 100
Threads == 0 .. NumWorkers

VARIABLES
    \* G4Threading / G4RunManager: the framework that calls the handlers
    mt,                  \* G4Threading::IsMultithreadedApplication()
    pc,                  \* per thread: "idle", "run", "event", "done"; before
                         \* its actions are built "unbuilt"; inside the
                         \* reduction "lock", "merge", "copy", "save"
    threadRun,           \* per thread: number of runs it has begun
    numberOfEvent,       \* per thread: run->GetNumberOfEvent() of its current G4Run
    \* RunAction, one instance per thread
    fRadialEnergyProfile, f2DEnergyProfile, fNumEvents,
    fTotalEnergyDeposit, fResistEnergyTotal, fSubstrateEnergyTotal,
    fAboveResistEnergyTotal,
    \* RunAction statics
    fMasterRadialProfile, fMaster2DProfile, fMasterArraysInitialized,
    \* EventAction, one instance per thread that runs events
    fRadialEnergyDeposit, f2DEnergyDeposit, fEnergyDeposit, fTotalTrackLength,
    fResistEnergy, fSubstrateEnergy, fAboveResistEnergy,
    \* output/psf_data.csv: its rows, <<>> while it has never been written
    psfFile,
    \* the other files SaveResults writes: the rows of the BEAMER file, the
    \* density matrix of ebl_2d_data.csv, the contents of simulation_summary.txt
    beamerFile, file2D, summaryFile,
    \* static G4int totalSteps of UserSteppingAction: one for all threads
    totalSteps,
    \* history of the current run
    accepted,            \* sum of the energies AddEnergyDeposit accepted
    seqRadial, seq2D,    \* the profile one thread flushing every event would hold
    merges,              \* per worker: executions of MergeLocalArrays
    exported,            \* SaveResults ran in this run
    nEvents, nSteps,     \* events begun, steps taken (over all runs)
    lastStep,            \* the last step handled (not followed in Spec)
    \* inputs and results of the binning functions (SpecBin, SpecDepth)
    radius, binIndex, logBin, binBounds, depthZ, depthIndex,
    \* arrayMergeMutex: the thread that holds it, or NoThread; and per thread
    \* the next element of the loops of MergeLocalArrays (SpecReduce)
    arrayMergeMutex, mergeIndex,
    \* PrimaryGeneratorAction::fBeamEnergy, the configured beam energy in keV
    fBeamEnergy

frameworkVars == <<mt, pc, threadRun, numberOfEvent>>
runActionVars == <<fRadialEnergyProfile, f2DEnergyProfile, fNumEvents,
                   fTotalEnergyDeposit, fResistEnergyTotal, fSubstrateEnergyTotal,
                   fAboveResistEnergyTotal>>
masterVars == <<fMasterRadialProfile, fMaster2DProfile, fMasterArraysInitialized>>
depositVars == <<fRadialEnergyDeposit, f2DEnergyDeposit, fEnergyDeposit,
                 fResistEnergy, fSubstrateEnergy, fAboveResistEnergy>>
eventVars == <<depositVars, fTotalTrackLength>>
historyVars == <<accepted, seqRadial, seq2D, merges, exported, nEvents, nSteps, lastStep>>
binVars == <<radius, binIndex, logBin, binBounds, depthZ, depthIndex>>
reduceVars == <<arrayMergeMutex, mergeIndex>>
fileVars == <<psfFile, beamerFile, file2D, summaryFile>>
vars == <<frameworkVars, runActionVars, masterVars, eventVars, fileVars, totalSteps,
          historyVars, binVars, reduceVars, fBeamEnergy>>

ZeroRadial == [i \in RadialBins |-> 0]
Zero2D == [d \in DepthBins |-> ZeroRadial]

RECURSIVE SumTo(_, _)
SumTo(h, i) == IF i < 0 THEN 0 ELSE h[i] + SumTo(h, i - 1)
\* sum over all radial bins
SumRadial(h) == SumTo(h, NUM_RADIAL_BINS - 1)

\* ----------------------------------------------------------- EventAction
\* DetectorConstruction::GetActualResistThickness(), scaled down
ActualResistThickness == 1

\* EventAction::BeginOfEventAction
BeginOfEventAction(t) ==
    /\ pc[t] = "run"
    /\ nEvents < MaxEvents
    /\ fEnergyDeposit' = [fEnergyDeposit EXCEPT ![t] = 0]
    /\ fTotalTrackLength' = [fTotalTrackLength EXCEPT ![t] = 0]
    /\ fResistEnergy' = [fResistEnergy EXCEPT ![t] = 0]
    /\ fSubstrateEnergy' = [fSubstrateEnergy EXCEPT ![t] = 0]
    /\ fAboveResistEnergy' = [fAboveResistEnergy EXCEPT ![t] = 0]
    /\ fRadialEnergyDeposit' = [fRadialEnergyDeposit EXCEPT ![t] = ZeroRadial]
    /\ f2DEnergyDeposit' = [f2DEnergyDeposit EXCEPT ![t] = Zero2D]
    /\ pc' = [pc EXCEPT ![t] = "event"]
    /\ nEvents' = nEvents + 1
    /\ UNCHANGED <<mt, threadRun, numberOfEvent, runActionVars, masterVars, fileVars,
                   totalSteps,
                   accepted, seqRadial, seq2D, merges, exported, nSteps, lastStep,
                   binVars,
                   reduceVars, fBeamEnergy>>

\* a check of the sign of the energy alone, without the NaN / infinity tests
RejectedNonPositiveOnly(edep, x, y, z) == LessEq(edep, Num(0))

\* the check at the top of AddEnergyDeposit: edep <= 0, NaN or infinite values
Rejected(edep, x, y, z) ==
    \/ LessEq(edep, Num(0))
    \/ IsNaN(edep) \/ IsInf(edep)
    \/ IsNaN(x) \/ IsInf(x)
    \/ IsNaN(y) \/ IsInf(y)
    \/ IsNaN(z) \/ IsInf(z)

\* the radius AddEnergyDeposit bins: beyond 2 * MAX_RADIUS it is replaced by
\* MAX_RADIUS * 0.99, here the grid radius just below it (GetLogBin is constant
\* between the two: no index threshold lies above MAX_RADIUS / LogStepRatio)
BinnedRadius(r) ==
    IF r > 2 * MAX_RADIUS THEN (MAX_RADIUS * 99) \div 100 ELSE r

\* a plausible slip: the resist surface z = 0 left out of the resist
RegionOpenAtSurface(z) ==
    IF z > 0 /\ z <= ActualResistThickness THEN "resist"
    ELSE IF z < 0 THEN "substrate"
    ELSE "above"

\* the region AddEnergyDeposit books a depth z to
Region(z) ==
    IF z >= 0 /\ z <= ActualResistThickness THEN "resist"
    ELSE IF z < 0 THEN "substrate"
    ELSE "above"

\* EventAction::AddEnergyDeposit
AddEnergyDeposit(t, edep, x, y, z) ==
    IF Rejected(edep, x, y, z)
    THEN UNCHANGED <<depositVars, accepted>>
    ELSE LET e == edep[2]
             r == BinnedRadius(Radius(x, y)[2])
             radialBin == GetLogBin(r)
             depthBin == GetDepthBin(z[2])
             valid == radialBin >= 0 /\ radialBin < NUM_RADIAL_BINS
         IN  /\ fEnergyDeposit' = [fEnergyDeposit EXCEPT ![t] = @ + e]
             /\ fRadialEnergyDeposit' =
                    IF valid
                    THEN [fRadialEnergyDeposit EXCEPT ![t][radialBin] = @ + e]
                    ELSE fRadialEnergyDeposit
             /\ f2DEnergyDeposit' =
                    IF valid /\ depthBin >= 0 /\ depthBin < NUM_DEPTH_BINS
                    THEN [f2DEnergyDeposit EXCEPT ![t][depthBin][radialBin] = @ + e]
                    ELSE f2DEnergyDeposit
             /\ IF Region(z[2]) = "resist"
                THEN /\ fResistEnergy' = [fResistEnergy EXCEPT ![t] = @ + e]
                     /\ UNCHANGED <<fSubstrateEnergy, fAboveResistEnergy>>
                ELSE IF Region(z[2]) = "substrate"
                THEN /\ fSubstrateEnergy' = [fSubstrateEnergy EXCEPT ![t] = @ + e]
                     /\ UNCHANGED <<fResistEnergy, fAboveResistEnergy>>
                ELSE /\ fAboveResistEnergy' = [fAboveResistEnergy EXCEPT ![t] = @ + e]
                     /\ UNCHANGED <<fResistEnergy, fSubstrateEnergy>>
             /\ accepted' = accepted + e

\* -------------------------------------------------------- SteppingAction
\* energy units (0.005 eV each) per eV
eV == 200

\* a plausible slip: the far-radius cut placed at the overflow margin
maxPhysicalRadiusAtMargin == 2 * MAX_RADIUS

\* maxPhysicalRadius of UserSteppingAction: 1000 um, ten times MAX_RADIUS
maxPhysicalRadius == 10 * MAX_RADIUS

\* the adaptive threshold of UserSteppingAction
Threshold(s) ==
    IF s.particleName = "e-" /\ s.kinEnergy < 100 * eV THEN eV \div 100
    ELSE IF s.particleName = "gamma" /\ s.kinEnergy < 100 * eV THEN eV \div 10
    ELSE 0

\* the position UserSteppingAction scores: the pre-step point of a step
\* shorter than 0.1 nm (MIN_RADIUS / 5), the midpoint of a longer one
StepPosition(s) ==
    IF 5 * s.stepLength < MIN_RADIUS
    THEN s.prePos
    ELSE <<Half(s.prePos[1], s.postPos[1]), Half(s.prePos[2], s.postPos[2]),
           Half(s.prePos[3], s.postPos[3])>>

\* UserSteppingAction returns before it calls AddEnergyDeposit
Skipped(s) ==
    LET pos == StepPosition(s)
    IN  \/ Less(s.edep, Num(Threshold(s)))
        \/ Less(Num(maxPhysicalRadius), Radius(pos[1], pos[2]))

\* totalSteps++ on the function-local static that all threads share, with no
\* lock and no atomic: alone, the thread adds one; while another worker is
\* inside an event the increments race, and the value written is one more than
\* any value the counter has held (an update of the other thread is lost)
IncrementedStatic(t, n) ==
    IF mt /\ \E w \in Workers \ {t} : pc[w] = "event"
    THEN 1 .. (n + 1)
    ELSE {n + 1}

\* SteppingAction::UserSteppingAction for one step of `steps`; of the
\* diagnostic statics it updates (volumeEnergy, totalSteps, ...) the model
\* keeps totalSteps
UserSteppingAction(t, steps, follow) ==
    /\ pc[t] = "event"
    /\ nSteps < MaxSteps
    /\ \E s \in steps :
         LET pos == StepPosition(s)
         IN  /\ IF Skipped(s)
                THEN UNCHANGED <<eventVars, accepted, totalSteps>>
                ELSE /\ totalSteps' \in IncrementedStatic(t, totalSteps)
                     /\ AddEnergyDeposit(t, s.edep, pos[1], pos[2], pos[3])
                     /\ fTotalTrackLength' =
                            [fTotalTrackLength EXCEPT ![t] = @ + s.stepLength]
             /\ lastStep' = IF follow THEN <<[thread |-> t, step |-> s]>> ELSE lastStep
    /\ nSteps' = nSteps + 1
    /\ UNCHANGED <<frameworkVars, runActionVars, masterVars, fileVars,
                   seqRadial, seq2D, merges, exported, nEvents, binVars,
                   reduceVars, fBeamEnergy>>

\* -------------------------------------------------------------- RunAction
\* the array part of RunAction::AddRadialEnergyDeposit
RadialAdd(profile, energyDeposit) ==
    [i \in RadialBins |->
        IF energyDeposit[i] > 0 THEN profile[i] + energyDeposit[i] ELSE profile[i]]

\* RunAction::Add2DEnergyDeposit
Add2DEnergyDeposit(profile, energy2D) ==
    [d \in DepthBins |-> RadialAdd(profile[d], energy2D[d])]

\* RunAction::AddRegionEnergy / fTotalEnergyDeposit += : only positive values
AddPositive(total, v) == IF v > 0 THEN total + v ELSE total

\* a plausible slip: fNumEvents++ inside the `eventTotalEnergy > 0` guard
CountEventWithEnergy(n, energyDeposit) ==
    IF SumRadial(energyDeposit) > 0 THEN n + 1 ELSE n

\* fNumEvents++ at the end of RunAction::AddRadialEnergyDeposit
CountEvent(n, energyDeposit) == n + 1

\* EventAction::EndOfEventAction, and G4Run::RecordEvent after it
EndOfEventAction(t) ==
    /\ pc[t] = "event"
    /\ fRadialEnergyProfile' =
           [fRadialEnergyProfile EXCEPT ![t] = RadialAdd(@, fRadialEnergyDeposit[t])]
    /\ fTotalEnergyDeposit' =
           [fTotalEnergyDeposit EXCEPT
               ![t] = AddPositive(@, SumRadial(fRadialEnergyDeposit[t]))]
    /\ fNumEvents' = [fNumEvents EXCEPT ![t] = CountEvent(@, fRadialEnergyDeposit[t])]
    /\ f2DEnergyProfile' =
           [f2DEnergyProfile EXCEPT ![t] = Add2DEnergyDeposit(@, f2DEnergyDeposit[t])]
    /\ fResistEnergyTotal' =
           [fResistEnergyTotal EXCEPT ![t] = AddPositive(@, fResistEnergy[t])]
    /\ fSubstrateEnergyTotal' =
           [fSubstrateEnergyTotal EXCEPT ![t] = AddPositive(@, fSubstrateEnergy[t])]
    /\ fAboveResistEnergyTotal' =
           [fAboveResistEnergyTotal EXCEPT ![t] = AddPositive(@, fAboveResistEnergy[t])]
    /\ numberOfEvent' = [numberOfEvent EXCEPT ![t] = @ + 1]
    /\ pc' = [pc EXCEPT ![t] = "run"]
    /\ seqRadial' = RadialAdd(seqRadial, fRadialEnergyDeposit[t])
    /\ seq2D' = Add2DEnergyDeposit(seq2D, f2DEnergyDeposit[t])
    /\ UNCHANGED <<mt, threadRun, masterVars, eventVars, fileVars, totalSteps,
                   accepted, merges, exported, nEvents, nSteps, lastStep, binVars,
                   reduceVars, fBeamEnergy>>

\* the order G4RunManager / G4MTRunManager starts BeginOfRunAction in: the
\* master first, once every thread is out of the previous run; then each worker
MayBeginRun(t) ==
    IF t = Master
    THEN /\ pc[Master] \in {"idle", "done"}
         /\ threadRun[Master] < MaxRuns
         /\ mt => \A w \in Workers :
                     /\ pc[w] \in {"unbuilt", "idle", "done"}
                     /\ threadRun[w] = threadRun[Master]
    ELSE /\ mt
         /\ pc[Master] = "run"
         /\ pc[t] \in {"idle", "done"}
         /\ threadRun[t] < threadRun[Master]

\* a plausible slip: the master radial array is not reset between runs
ResetMasterRadialSkipped(profile) == profile

\* std::fill(fMasterRadialProfile.begin(), fMasterRadialProfile.end(), 0.0)
ResetMasterRadial(profile) == [i \in DOMAIN profile |-> 0]

\* RunAction::BeginOfRunAction
BeginOfRunAction(t) ==
    /\ MayBeginRun(t)
    /\ fTotalEnergyDeposit' = [fTotalEnergyDeposit EXCEPT ![t] = 0]
    /\ fResistEnergyTotal' = [fResistEnergyTotal EXCEPT ![t] = 0]
    /\ fSubstrateEnergyTotal' = [fSubstrateEnergyTotal EXCEPT ![t] = 0]
    /\ fAboveResistEnergyTotal' = [fAboveResistEnergyTotal EXCEPT ![t] = 0]
    /\ fRadialEnergyProfile' = [fRadialEnergyProfile EXCEPT ![t] = ZeroRadial]
    /\ f2DEnergyProfile' = [f2DEnergyProfile EXCEPT ![t] = Zero2D]
    /\ fNumEvents' = [fNumEvents EXCEPT ![t] = 0]
    /\ IF t = Master
       THEN /\ fMasterRadialProfile' = ResetMasterRadial(fMasterRadialProfile)
            /\ fMaster2DProfile' = Zero2D
            /\ accepted' = 0
            /\ seqRadial' = ZeroRadial
            /\ seq2D' = Zero2D
            /\ merges' = [w \in Workers |-> 0]
            /\ exported' = FALSE
       ELSE UNCHANGED <<fMasterRadialProfile, fMaster2DProfile, accepted, seqRadial,
                        seq2D, merges, exported>>
    /\ numberOfEvent' = [numberOfEvent EXCEPT ![t] = 0]
    /\ threadRun' = [threadRun EXCEPT ![t] = @ + 1]
    /\ pc' = [pc EXCEPT ![t] = "run"]
    /\ UNCHANGED <<mt, fMasterArraysInitialized, eventVars, fileVars, totalSteps,
                   nEvents, nSteps, lastStep, binVars,
                   reduceVars, fBeamEnergy>>

\* annulus area of a bin, in units of pi
Area(bin) ==
    LET b == GetBinBoundaries(bin)
    IN  b[2] * b[2] - b[1] * b[1]

\* a plausible slip: the density per unit area, not divided by the events
EnergyDensityPerArea(energy, area, events) ==
    IF area > 0 /\ events > 0 THEN <<energy, area>> ELSE <<0, 1>>

\* energy per unit area per event as the fraction <<numerator, denominator>>
\* (of 1/pi); 0 when the area or the event count is 0
EnergyDensity(energy, area, events) ==
    IF area > 0 /\ events > 0 THEN <<energy, area * events>> ELSE <<0, 1>>

\* RunAction::SaveCSVFormat: the data rows, one per radial bin
SaveCSVFormat(profile, events) ==
    [k \in 1 .. NUM_RADIAL_BINS |->
        LET i == k - 1
        IN  [rCenterSquared |-> GetBinRadiusSquared(i),
             energyDensity |-> EnergyDensity(profile[i], Area(i), events),
             rInner |-> GetBinBoundaries(i)[1],
             rOuter |-> GetBinBoundaries(i)[2],
             events |-> events]]

\* ----------------------------------------------------- exact quotients
RECURSIVE GCD(_, _)
GCD(a, b) == IF b = 0 THEN a ELSE GCD(b, a % b)

\* the G4double n / d for n, d >= 0, as the fraction <<numerator, denominator>>
\* in lowest terms; a division by zero keeps its zero denominator
Frac(n, d) ==
    IF d = 0 THEN <<n, 0>>
    ELSE IF n = 0 THEN <<0, 1>>
    ELSE LET g == GCD(n, d) IN <<n \div g, d \div g>>

FracMul(a, b) == Frac(a[1] * b[1], a[2] * b[2])
FracDiv(a, b) == Frac(a[1] * b[2], a[2] * b[1])
FracAdd(a, b) == Frac(a[1] * b[2] + b[1] * a[2], a[2] * b[2])
\* a = b for two fractions with non-zero denominators
FracEq(a, b) == a[1] * b[2] = b[1] * a[2]

\* ------------------------------------------------------------- BEAMER file
\* the beam energy SaveBEAMERFormat writes when fPrimaryGenerator is null, keV
FallbackBeamEnergy == 100

\* RunAction::fPrimaryGenerator of thread t is not null: Build() passes the
\* thread's PrimaryGeneratorAction, BuildForMaster() passes nullptr
HasPrimaryGenerator(t) == ~(mt /\ t = Master)

\* fPrimaryGenerator ? fPrimaryGenerator->GetParticleGun()->GetParticleEnergy()
\* / keV : 100.0; the gun holds fBeamEnergy since the last GeneratePrimaries
HeaderBeamEnergy(t) ==
    IF HasPrimaryGenerator(t) THEN fBeamEnergy ELSE FallbackBeamEnergy

\* SaveBEAMERFormat, first loop: normalizedPSF[i] before the normalisation,
\* fRadialEnergyProfile[i] / (area * fNumEvents) if fNumEvents > 0, else the
\* 0.0 the vector was created with (in units of 1/pi)
BeamerDensity(profile, events) ==
    [i \in RadialBins |->
        IF events > 0 THEN Frac(profile[i], Area(i) * events) ELSE <<0, 1>>]

\* sum over the bins 0 .. i of psf[i] * area(i)
RECURSIVE IntegralTo(_, _)
IntegralTo(psf, i) ==
    IF i < 0 THEN <<0, 1>>
    ELSE FracAdd(IntegralTo(psf, i - 1), FracMul(psf[i], <<Area(i), 1>>))

\* SaveBEAMERFormat: totalIntegral
TotalIntegral(profile, events) ==
    IntegralTo(BeamerDensity(profile, events), NUM_RADIAL_BINS - 1)

\* a plausible slip: normalised by the sum of the densities, the areas left out
NormalizedPSFBySum(profile, events) ==
    LET raw == BeamerDensity(profile, events)
        RECURSIVE SumOf(_)
        SumOf(i) == IF i < 0 THEN <<0, 1>> ELSE FracAdd(SumOf(i - 1), raw[i])
        total == SumOf(NUM_RADIAL_BINS - 1)
    IN  IF total[1] > 0
        THEN [i \in RadialBins |-> FracDiv(raw[i], total)]
        ELSE raw

\* SaveBEAMERFormat: normalizedPSF after `if (totalIntegral > 0) ... /= totalIntegral`
NormalizedPSF(profile, events) ==
    LET raw == BeamerDensity(profile, events)
        total == TotalIntegral(profile, events)
    IN  IF total[1] > 0
        THEN [i \in RadialBins |-> FracDiv(raw[i], total)]
        ELSE raw

\* a row of the BEAMER file: radius (squared, see GetBinRadiusSquared) and value
BeamerRow(rSquared, value) == [rSquared |-> rSquared, psf |-> value]

\* a plausible slip: a row for every bin, zero or not
RECURSIVE BeamerBinRowsAllBins(_, _)
BeamerBinRowsAllBins(psf, i) ==
    IF i >= NUM_RADIAL_BINS THEN <<>>
    ELSE <<BeamerRow(GetBinRadiusSquared(i), psf[i])>> \o BeamerBinRowsAllBins(psf, i + 1)

\* SaveBEAMERFormat, last loop: a row for each bin from i on whose value is > 0
RECURSIVE BeamerBinRows(_, _)
BeamerBinRows(psf, i) ==
    IF i >= NUM_RADIAL_BINS THEN <<>>
    ELSE (IF psf[i][1] > 0 THEN <<BeamerRow(GetBinRadiusSquared(i), psf[i])>> ELSE <<>>)
         \o BeamerBinRows(psf, i + 1)

\* RunAction::SaveBEAMERFormat: the "# Beam energy" and "# Total events"
\* headers and the data rows,
\* the near-origin row (radius MIN_RADIUS / 2) first if bin 0 is non-zero
SaveBEAMERFormat(profile, events, beamEnergy) ==
    LET psf == NormalizedPSF(profile, events)
        origin == IF psf[0][1] > 0
                  THEN <<BeamerRow((MIN_RADIUS * MIN_RADIUS) \div 4, psf[0])>>
                  ELSE <<>>
    IN  [beamEnergy |-> beamEnergy, events |-> events,
         rows |-> origin \o BeamerBinRows(psf, 0)]

\* ----------------------------------------------------------------- 2D file
\* RunAction::Save2DFormat: the energy density of every (depth, radius) cell
Save2DFormat(profile2D, events) ==
    [d \in DepthBins |->
        [r \in RadialBins |-> EnergyDensity(profile2D[d][r], Area(r), events)]]

\* ----------------------------------------------------------------- summary
\* a plausible slip: the 50% and 90% thresholds exchanged
ThresholdsSwapped == <<<<9, 10>>, <<1, 2>>, <<99, 100>>>>

\* the fractions 0.5, 0.9, 0.99 of the percentile walk
Thresholds == <<<<1, 2>>, <<9, 10>>, <<99, 100>>>>

\* a plausible slip: bin 0 skipped from half of the energy on
SkipFirstBinFromHalf(profile, totalRadialEnergy) ==
    totalRadialEnergy > 0 /\ 2 * profile[0] > totalRadialEnergy

\* SaveSummary: skipFirstBin, firstBinFraction > 0.8 of a positive total
SkipFirstBin(profile, totalRadialEnergy) ==
    totalRadialEnergy > 0 /\ 5 * profile[0] > 4 * totalRadialEnergy

\* a plausible slip: the radius recorded again at every later bin
RecordedAgain(e, reached, bin) ==
    IF reached THEN GetBinRadiusSquared(bin) ELSE e

\* `if (fraction >= p && e == 0) e = GetBinRadius(i)`; radii are squared
Recorded(e, reached, bin) ==
    IF reached /\ e = 0 THEN GetBinRadiusSquared(bin) ELSE e

\* SaveSummary: the percentile loop from bin i on; e is <<e50, e90, e99>>
RECURSIVE PercentileWalk(_, _, _, _, _)
PercentileWalk(profile, adjustedTotal, i, cumulativeEnergy, e) ==
    IF i >= NUM_RADIAL_BINS THEN e
    ELSE LET c == cumulativeEnergy + profile[i]
             reached(k) == c * Thresholds[k][2] >= Thresholds[k][1] * adjustedTotal
         IN  PercentileWalk(profile, adjustedTotal, i + 1, c,
                 [k \in 1 .. 3 |-> Recorded(e[k], reached(k), i)])

\* RunAction::SaveSummary
SaveSummary(profile, events, totalE, resist, substrate, above) ==
    LET totalRadialEnergy == SumRadial(profile)
        skipFirstBin == SkipFirstBin(profile, totalRadialEnergy)
        startBin == IF skipFirstBin THEN 1 ELSE 0
        adjustedTotal == IF skipFirstBin
                         THEN totalRadialEnergy - profile[0]
                         ELSE totalRadialEnergy
        e == IF adjustedTotal > 0
             THEN PercentileWalk(profile, adjustedTotal, startBin, 0, <<0, 0, 0>>)
             ELSE <<0, 0, 0>>
    IN  [events |-> events,
         regionShares |-> IF totalE > 0
                          THEN <<Frac(resist, totalE), Frac(substrate, totalE),
                                 Frac(above, totalE)>>
                          ELSE <<>>,
         totalRadialEnergy |-> totalRadialEnergy,
         firstBinShare |-> IF totalRadialEnergy > 0
                           THEN Frac(profile[0], totalRadialEnergy)
                           ELSE <<0, 1>>,
         energyPerEvent |-> Frac(totalRadialEnergy, events),
         note |-> skipFirstBin,
         startBin |-> startBin,
         adjustedTotal |-> adjustedTotal,
         e50 |-> e[1], e90 |-> e[2], e99 |-> e[3]]

\* a plausible slip: every thread saves, no thread merges
SavesResultsAlways(t) == TRUE

\* the branch of EndOfRunAction that exports: the master thread, or any
\* thread of a sequential application
SavesResults(t) == t = Master \/ ~mt

\* a plausible slip: the merge assigns instead of adding
MergeRadialAssign(master, local) == local

\* the radial loop of RunAction::MergeLocalArrays
MergeRadial(master, local) == [i \in RadialBins |-> master[i] + local[i]]

\* a plausible slip: the 2D merge assigns instead of adding
Merge2DAssign(master, local) == local

\* the 2D loop of RunAction::MergeLocalArrays
Merge2D(master, local) == [d \in DepthBins |-> MergeRadial(master[d], local[d])]

\* the order the framework calls EndOfRunAction in: a worker when its event
\* loop is over; the master of a multithreaded run after every worker has
\* left its EndOfRunAction (G4MTRunManager waits for the workers)
MayEndRun(t) ==
    /\ pc[t] = "run"
    /\ (mt /\ t = Master) =>
           \A w \in Workers : pc[w] = "done" /\ threadRun[w] = threadRun[Master]

\* G4AccumulableManager::Merge: a worker's scalars go to the master's
AccumulablesMerge(t) ==
    IF t # Master
    THEN /\ fTotalEnergyDeposit' = [fTotalEnergyDeposit EXCEPT
                ![Master] = @ + fTotalEnergyDeposit[t]]
         /\ fResistEnergyTotal' = [fResistEnergyTotal EXCEPT
                ![Master] = @ + fResistEnergyTotal[t]]
         /\ fSubstrateEnergyTotal' = [fSubstrateEnergyTotal EXCEPT
                ![Master] = @ + fSubstrateEnergyTotal[t]]
         /\ fAboveResistEnergyTotal' = [fAboveResistEnergyTotal EXCEPT
                ![Master] = @ + fAboveResistEnergyTotal[t]]
    ELSE UNCHANGED <<fTotalEnergyDeposit, fResistEnergyTotal,
                     fSubstrateEnergyTotal, fAboveResistEnergyTotal>>

\* fNumEvents = nofEvents and RunAction::SaveResults: the four files in turn,
\* written from the arrays and scalar totals the thread holds
SaveResults(t, nofEvents, radialProfile, profile2D, totals) ==
    /\ fNumEvents' = [fNumEvents EXCEPT ![t] = nofEvents]
    /\ psfFile' = SaveCSVFormat(radialProfile, nofEvents)
    /\ beamerFile' =
           <<SaveBEAMERFormat(radialProfile, nofEvents, HeaderBeamEnergy(t))>>
    /\ file2D' = <<Save2DFormat(profile2D, nofEvents)>>
    /\ summaryFile' =
           <<SaveSummary(radialProfile, nofEvents,
                         totals[1], totals[2], totals[3], totals[4])>>
    /\ exported' = TRUE

\* RunAction::EndOfRunAction; a worker's G4Run is merged into the master's
\* (G4Run::Merge) just before
EndOfRunAction(t) ==
    /\ MayEndRun(t)
    /\ pc' = [pc EXCEPT ![t] = "done"]
    /\ numberOfEvent' =
           IF t # Master
           THEN [numberOfEvent EXCEPT ![Master] = @ + numberOfEvent[t]]
           ELSE numberOfEvent
    /\ LET nofEvents == numberOfEvent[t]
       IN  IF nofEvents = 0
           THEN UNCHANGED <<runActionVars, masterVars, fileVars, merges, exported>>
           ELSE \* G4AccumulableManager::Merge: a worker's scalars go to the master's
                /\ AccumulablesMerge(t)
                /\ IF SavesResults(t)
                   THEN \* copy the master arrays (MT), then SaveResults
                        /\ fRadialEnergyProfile' =
                               IF mt
                               THEN [fRadialEnergyProfile EXCEPT ![t] = fMasterRadialProfile]
                               ELSE fRadialEnergyProfile
                        /\ f2DEnergyProfile' =
                               IF mt
                               THEN [f2DEnergyProfile EXCEPT ![t] = fMaster2DProfile]
                               ELSE f2DEnergyProfile
                        /\ SaveResults(t, nofEvents, fRadialEnergyProfile'[t],
                                       f2DEnergyProfile'[t],
                                       <<fTotalEnergyDeposit'[t], fResistEnergyTotal'[t],
                                         fSubstrateEnergyTotal'[t],
                                         fAboveResistEnergyTotal'[t]>>)
                        /\ UNCHANGED <<masterVars, merges>>
                   ELSE \* MergeLocalArrays, under arrayMergeMutex
                        /\ fMasterRadialProfile' =
                               MergeRadial(fMasterRadialProfile, fRadialEnergyProfile[t])
                        /\ fMaster2DProfile' =
                               Merge2D(fMaster2DProfile, f2DEnergyProfile[t])
                        /\ merges' = [merges EXCEPT ![t] = @ + 1]
                        /\ UNCHANGED <<fRadialEnergyProfile, f2DEnergyProfile, fNumEvents,
                                       fMasterArraysInitialized, fileVars, exported>>
    /\ UNCHANGED <<mt, threadRun, eventVars, totalSteps, accepted, seqRadial, seq2D,
                   nEvents, nSteps, lastStep, binVars,
                   reduceVars, fBeamEnergy>>

\* ------------------------------------------------------------------ inputs
Point(x, y, z) == <<Num(x), Num(y), Num(z)>>
\* a step that deposits edep at one point
StepAt(edep, pos) ==
    [edep |-> edep, particleName |-> "e-", kinEnergy |-> 100 * eV,
     prePos |-> pos, postPos |-> pos, stepLength |-> 0]

\* the steps of the multithreaded model: one on the axis in the resist, one
\* in the substrate, one long step (scored at its midpoint) above the resist
RunSteps ==
    { StepAt(Num(3), Point(0, 0, 0)),
      StepAt(Num(1), Point(0 - 3, 0, 0 - 1)),
      [edep |-> Num(2), particleName |-> "e-", kinEnergy |-> 100 * eV,
       prePos |-> Point(4, 0, 1), postPos |-> Point(8, 0, 3), stepLength |-> 4] }

\* the steps of the sequential model: RunSteps and the edge cases of
\* UserSteppingAction and AddEnergyDeposit
SeqSteps ==
    RunSteps \cup
    { StepAt(Num(2), Point(0, MAX_RADIUS, 2)),
      [edep |-> Num(2), particleName |-> "e-", kinEnergy |-> 100 * eV,
       prePos |-> Point(4, 0, 1), postPos |-> Point(8, 0, 1), stepLength |-> 4],
      StepAt(Num(1), Point(1, 0, 0)),
      StepAt(Num(0), Point(3, 0, 0)),
      StepAt(Num(0 - 1), Point(3, 0, 0)),
      StepAt(NaN, Point(3, 0, 0)),
      StepAt(PosInf, Point(3, 0, 0)),
      StepAt(Num(1), <<NaN, Num(0), Num(0)>>),
      StepAt(Num(1), <<Num(3), Num(0), PosInf>>),
      StepAt(Num(1), <<NegInf, Num(0), Num(0)>>),
      [edep |-> Num(1), particleName |-> "e-", kinEnergy |-> 50 * eV,
       prePos |-> Point(3, 0, 0), postPos |-> Point(3, 0, 0), stepLength |-> 0],
      [edep |-> Num(3), particleName |-> "gamma", kinEnergy |-> 50 * eV,
       prePos |-> Point(3, 0, 0), postPos |-> Point(3, 0, 0), stepLength |-> 0],
      StepAt(Num(1), Point(2 * MAX_RADIUS, 0, 0 - 5)),
      StepAt(Num(1), Point(2 * MAX_RADIUS + 1, 0, 0)),
      StepAt(Num(2), Point(3 * MAX_RADIUS, 4 * MAX_RADIUS, 3)),
      StepAt(Num(1), Point(0, 0 - maxPhysicalRadius, 0)),
      StepAt(Num(1), Point(maxPhysicalRadius + 1, 0, 0)) }

\* the threads that run events
EventThreads == IF mt THEN Workers ELSE {Master}

\* --------------------------------------------------------- specifications
\* the state after construction (ActionInitialization::Build / BuildForMaster
\* and the RunAction / EventAction constructors), before the first run
InitRun ==
    /\ pc = [t \in Threads |-> "idle"]
    /\ threadRun = [t \in Threads |-> 0]
    /\ numberOfEvent = [t \in Threads |-> 0]
    /\ fRadialEnergyProfile = [t \in Threads |-> ZeroRadial]
    /\ f2DEnergyProfile = [t \in Threads |-> Zero2D]
    /\ fNumEvents = [t \in Threads |-> 0]
    /\ fTotalEnergyDeposit = [t \in Threads |-> 0]
    /\ fResistEnergyTotal = [t \in Threads |-> 0]
    /\ fSubstrateEnergyTotal = [t \in Threads |-> 0]
    /\ fAboveResistEnergyTotal = [t \in Threads |-> 0]
    /\ fMasterRadialProfile = ZeroRadial
    /\ fMaster2DProfile = Zero2D
    /\ fMasterArraysInitialized = TRUE
    /\ fRadialEnergyDeposit = [t \in Threads |-> ZeroRadial]
    /\ f2DEnergyDeposit = [t \in Threads |-> Zero2D]
    /\ fEnergyDeposit = [t \in Threads |-> 0]
    /\ fTotalTrackLength = [t \in Threads |-> 0]
    /\ fResistEnergy = [t \in Threads |-> 0]
    /\ fSubstrateEnergy = [t \in Threads |-> 0]
    /\ fAboveResistEnergy = [t \in Threads |-> 0]
    /\ psfFile = <<>>
    /\ beamerFile = <<>>
    /\ file2D = <<>>
    /\ summaryFile = <<>>
    /\ totalSteps = 0
    /\ accepted = 0
    /\ seqRadial = ZeroRadial
    /\ seq2D = Zero2D
    /\ merges = [w \in Workers |-> 0]
    /\ exported = FALSE
    /\ nEvents = 0
    /\ nSteps = 0
    /\ lastStep = <<>>
    /\ arrayMergeMutex = NoThread
    /\ mergeIndex = [t \in Threads |-> 0]
    /\ fBeamEnergy = DEFAULT_ENERGY

\* GetDepthBin is not being applied
DepthIdle ==
    /\ depthZ = <<>>
    /\ depthIndex = <<>>

BinIdle ==
    /\ radius = 0
    /\ binIndex = 0
    /\ logBin = <<>>
    /\ binBounds = <<>>
    /\ DepthIdle

\* sequential or multithreaded application, the few steps of RunSteps
Init ==
    /\ mt \in BOOLEAN
    /\ InitRun
    /\ BinIdle

BeginOfRun == \E t \in Threads : BeginOfRunAction(t)
BeginOfEvent == \E t \in EventThreads : BeginOfEventAction(t)
Stepping == \E t \in EventThreads : UserSteppingAction(t, RunSteps, FALSE)
EndOfEvent == \E t \in EventThreads : EndOfEventAction(t)
EndOfRun == \E t \in Threads : EndOfRunAction(t)

Next == BeginOfRun \/ BeginOfEvent \/ Stepping \/ EndOfEvent \/ EndOfRun

Spec == Init /\ [][Next]_vars

\* sequential application, every step of SeqSteps, the last step followed
InitSeq ==
    /\ mt = FALSE
    /\ InitRun
    /\ BinIdle

SteppingSeq == UserSteppingAction(Master, SeqSteps, TRUE)

NextSeq ==
    \/ BeginOfRunAction(Master)
    \/ BeginOfEventAction(Master)
    \/ SteppingSeq
    \/ EndOfEventAction(Master)
    \/ EndOfRunAction(Master)

SpecSeq == InitSeq /\ [][NextSeq]_vars

\* ------------------------------------------- the binning functions alone
\* DataManager::GetRadialBin
GetRadialBin(r) ==
    IF ~USE_LOG_BINNING
    THEN LET bin == (r * NUM_RADIAL_BINS) \div MAX_RADIUS
         IN  IF bin < NUM_RADIAL_BINS - 1 THEN bin ELSE NUM_RADIAL_BINS - 1
    ELSE IF r <= 0 THEN -1
    ELSE IF r < MIN_RADIUS THEN 0
    ELSE IF r >= MAX_RADIUS THEN NUM_RADIAL_BINS - 1
    ELSE LET bin == FloorLogRatioTimes(r, NUM_RADIAL_BINS - 1)
             low == IF bin < NUM_RADIAL_BINS - 1 THEN bin ELSE NUM_RADIAL_BINS - 1
         IN  IF low > 0 THEN low ELSE 0

\* the radii and bin indexes the functions are applied to
Radii == (0 - 1) .. (2 * MAX_RADIUS + 1)
BinIndexes == 0 .. NUM_RADIAL_BINS

InitBin ==
    /\ mt = FALSE
    /\ InitRun
    /\ radius \in Radii
    /\ binIndex \in BinIndexes
    /\ logBin = <<>>
    /\ binBounds = <<>>
    /\ DepthIdle

\* logBin := GetLogBin(radius)
ApplyGetLogBin ==
    /\ logBin = <<>>
    /\ logBin' = <<GetLogBin(radius)>>
    /\ UNCHANGED <<frameworkVars, runActionVars, masterVars, eventVars, fileVars,
                   totalSteps, historyVars, radius, binIndex, binBounds,
                   depthZ, depthIndex, reduceVars, fBeamEnergy>>

\* binBounds := GetBinBoundaries(binIndex)
ApplyGetBinBoundaries ==
    /\ binBounds = <<>>
    /\ binBounds' = GetBinBoundaries(binIndex)
    /\ UNCHANGED <<frameworkVars, runActionVars, masterVars, eventVars, fileVars,
                   totalSteps, historyVars, radius, binIndex, logBin,
                   depthZ, depthIndex, reduceVars, fBeamEnergy>>

NextBin == ApplyGetLogBin \/ ApplyGetBinBoundaries

SpecBin == InitBin /\ [][NextBin]_vars

\* ------------------------------------------------- GetDepthBin alone
\* the depths GetDepthBin is applied to: the window and two units around it
DepthMargin == 2
Depths == (minDepth - DepthMargin) .. (maxDepth + DepthMargin)

InitDepth ==
    /\ mt = FALSE
    /\ InitRun
    /\ radius = 0
    /\ binIndex = 0
    /\ logBin = <<>>
    /\ binBounds = <<>>
    /\ depthZ \in Depths \X Depths
    /\ depthIndex = <<>>

\* depthIndex := GetDepthBin of the two depths of depthZ
ApplyGetDepthBin ==
    /\ depthIndex = <<>>
    /\ depthIndex' = <<GetDepthBin(depthZ[1]), GetDepthBin(depthZ[2])>>
    /\ UNCHANGED <<frameworkVars, runActionVars, masterVars, eventVars, fileVars,
                   totalSteps, historyVars, radius, binIndex, logBin, binBounds,
                   depthZ, reduceVars, fBeamEnergy>>

NextDepth == ApplyGetDepthBin

SpecDepth == InitDepth /\ [][NextDepth]_vars

\* ------------------------------------- AddEnergyDeposit called directly
\* the arguments of the calls, <<edep, x, y, z>>: valid energies on the axis
\* and inside the bins at depths on both sides of both resist boundaries, one
\* call beyond the overflow margin, and every kind of invalid argument
ValidCalls ==
    { <<Num(1), Num(xy[1]), Num(xy[2]), Num(z)>> :
        xy \in {<<0, 0>>, <<3, 4>>},
        z \in {0 - 1, 0, ActualResistThickness, ActualResistThickness + 1} }
    \cup { <<Num(2), Num(3), Num(4), Num(0)>>,
           <<Num(1), Num(2 * MAX_RADIUS + 1), Num(0), Num(0)>> }
InvalidCalls ==
    { <<edep, Num(3), Num(4), Num(0)>> :
        edep \in {Num(0 - 1), Num(0), NaN, PosInf, NegInf} }
    \cup { <<Num(1), x, Num(4), Num(0)>> : x \in {NaN, PosInf} }
    \cup { <<Num(1), Num(3), y, Num(0)>> : y \in {NaN, NegInf} }
    \cup { <<Num(1), Num(3), Num(4), z>> : z \in {NaN, PosInf, NegInf} }
Calls == ValidCalls \cup InvalidCalls

\* one call fEventAction->AddEnergyDeposit(edep, x, y, z) inside an event
CallAddEnergyDeposit ==
    /\ pc[Master] = "event"
    /\ nSteps < MaxSteps
    /\ \E c \in Calls :
         /\ AddEnergyDeposit(Master, c[1], c[2], c[3], c[4])
         /\ lastStep' = <<[thread |-> Master, step |-> StepAt(c[1], <<c[2], c[3], c[4]>>)]>>
    /\ nSteps' = nSteps + 1
    /\ UNCHANGED <<frameworkVars, runActionVars, masterVars, fTotalTrackLength,
                   fileVars, totalSteps, seqRadial, seq2D, merges, exported,
                   nEvents, binVars,
                   reduceVars, fBeamEnergy>>

NextCall ==
    \/ BeginOfRunAction(Master)
    \/ BeginOfEventAction(Master)
    \/ CallAddEnergyDeposit
    \/ EndOfEventAction(Master)
    \/ EndOfRunAction(Master)

\* sequential application, AddEnergyDeposit called with every argument of Calls
SpecCall == InitSeq /\ [][NextCall]_vars

\* ------------------------------------------------------ the exporters alone
\* the energies a bin of the exported profile holds
ExportEnergies == {0, 1, 4, 9, 99}
ExportProfiles == [RadialBins -> ExportEnergies]

\* the master's copy of v in a sequential application, 0 on the other threads
\* the beam energies configured with /gun/energy, in keV: the default and another
BeamEnergies == {DEFAULT_ENERGY, 30}

OnMaster(v) == [t \in Threads |-> IF t = Master THEN v ELSE 0]

\* a sequential run whose events are over: 1 .. MaxEvents events have been
\* flushed and left any profile of ExportProfiles behind (all deposits at
\* depth 0, in the resist); EndOfRunAction is about to be called
InitExport ==
    /\ mt \in BOOLEAN
    /\ fBeamEnergy \in BeamEnergies
    /\ \E p \in ExportProfiles, n \in 1 .. MaxEvents :
         LET holder == IF mt THEN 1 ELSE Master
             p2D == [d \in DepthBins |-> IF d = GetDepthBin(0) THEN p ELSE ZeroRadial]
             OnHolder(v, zero) == [t \in Threads |-> IF t = holder THEN v ELSE zero]
             Merged(v) == [t \in Threads |-> IF t \in {holder, Master} THEN v ELSE 0]
         IN  /\ pc = [t \in Threads |->
                        IF t = Master THEN "run" ELSE IF mt THEN "done" ELSE "idle"]
             /\ threadRun = [t \in Threads |-> IF mt THEN 1 ELSE OnMaster(1)[t]]
             /\ numberOfEvent = Merged(n)
             /\ fRadialEnergyProfile = OnHolder(p, ZeroRadial)
             /\ f2DEnergyProfile = OnHolder(p2D, Zero2D)
             /\ fNumEvents = OnHolder(n, 0)
             /\ fTotalEnergyDeposit = Merged(SumRadial(p))
             /\ fResistEnergyTotal = Merged(SumRadial(p))
             /\ fMasterRadialProfile = IF mt THEN p ELSE ZeroRadial
             /\ fMaster2DProfile = IF mt THEN p2D ELSE Zero2D
             /\ merges = [w \in Workers |-> IF mt /\ w = holder THEN 1 ELSE 0]
             /\ accepted = SumRadial(p)
             /\ seqRadial = p
             /\ seq2D = p2D
    /\ fSubstrateEnergyTotal = OnMaster(0)
    /\ fAboveResistEnergyTotal = OnMaster(0)
    /\ fMasterArraysInitialized = TRUE
    /\ fRadialEnergyDeposit = [t \in Threads |-> ZeroRadial]
    /\ f2DEnergyDeposit = [t \in Threads |-> Zero2D]
    /\ fEnergyDeposit = OnMaster(0)
    /\ fTotalTrackLength = OnMaster(0)
    /\ fResistEnergy = OnMaster(0)
    /\ fSubstrateEnergy = OnMaster(0)
    /\ fAboveResistEnergy = OnMaster(0)
    /\ psfFile = <<>>
    /\ beamerFile = <<>>
    /\ file2D = <<>>
    /\ summaryFile = <<>>
    /\ totalSteps = 0
    /\ exported = FALSE
    /\ nEvents = MaxEvents
    /\ nSteps = MaxSteps
    /\ lastStep = <<>>
    /\ arrayMergeMutex = NoThread
    /\ mergeIndex = [t \in Threads |-> 0]
    /\ BinIdle

NextExport ==
    \/ EndOfRunAction(Master)
    \/ BeginOfRunAction(Master)

SpecExport == InitExport /\ [][NextExport]_vars

\* ------------------------------------- construction and the array reduction
\* a plausible slip: the sizing of the static arrays left to a test no thread
\* of the application passes
IsMasterThreadNever(t) == FALSE

\* G4Threading::IsMasterThread(): the thread that built the run manager
IsMasterThread(t) == t = Master

\* a plausible slip: the merge entered without waiting for the mutex
MutexFreeAlways(mutex) == TRUE

\* G4AutoLock lock(&arrayMergeMutex) returns only when no thread holds it
MutexFree(mutex) == mutex = NoThread

\* RunAction::RunAction: under the lock, the master thread sizes the static
\* arrays once; every instance sizes its own arrays
RunActionConstructor(t) ==
    /\ MutexFree(arrayMergeMutex)
    /\ IF ~fMasterArraysInitialized /\ IsMasterThread(t)
       THEN /\ fMasterRadialProfile' = ZeroRadial
            /\ fMaster2DProfile' = Zero2D
            /\ fMasterArraysInitialized' = TRUE
       ELSE UNCHANGED masterVars
    /\ fRadialEnergyProfile' = [fRadialEnergyProfile EXCEPT ![t] = ZeroRadial]
    /\ f2DEnergyProfile' = [f2DEnergyProfile EXCEPT ![t] = Zero2D]

\* ActionInitialization::BuildForMaster: the master of a multithreaded
\* application gets a RunAction only
BuildForMaster ==
    /\ mt
    /\ pc[Master] = "unbuilt"
    /\ RunActionConstructor(Master)
    /\ pc' = [pc EXCEPT ![Master] = "idle"]
    /\ UNCHANGED <<mt, threadRun, numberOfEvent, fNumEvents, fTotalEnergyDeposit,
                   fResistEnergyTotal, fSubstrateEnergyTotal, fAboveResistEnergyTotal,
                   eventVars, fileVars, totalSteps, historyVars, binVars,
                   reduceVars, fBeamEnergy>>

\* ActionInitialization::Build, on each worker when G4MTRunManager starts the
\* worker threads (in the event loop of the first run, after the master's
\* BeginOfRunAction), or on the only thread of a sequential application: the
\* RunAction and the EventAction with its histograms
Build(t) ==
    /\ pc[t] = "unbuilt"
    /\ mt => pc[Master] = "run"
    /\ RunActionConstructor(t)
    /\ fRadialEnergyDeposit' = [fRadialEnergyDeposit EXCEPT ![t] = ZeroRadial]
    /\ f2DEnergyDeposit' = [f2DEnergyDeposit EXCEPT ![t] = Zero2D]
    /\ pc' = [pc EXCEPT ![t] = "idle"]
    /\ UNCHANGED <<mt, threadRun, numberOfEvent, fNumEvents, fTotalEnergyDeposit,
                   fResistEnergyTotal, fSubstrateEnergyTotal, fAboveResistEnergyTotal,
                   fEnergyDeposit, fResistEnergy, fSubstrateEnergy, fAboveResistEnergy,
                   fTotalTrackLength, fileVars, totalSteps, historyVars, binVars,
                   reduceVars, fBeamEnergy>>

\* BeginOfRunAction where the mutex is modelled: the master resets the static
\* arrays under the lock, so it starts only when the mutex is free; the
\* reduction model follows the application through its first run
LockedBeginOfRunAction(t) ==
    /\ IsMasterThread(t) => MutexFree(arrayMergeMutex) /\ threadRun[t] = 0
    /\ BeginOfRunAction(t)

\* EndOfRunAction of a multithreaded run up to the array part: the early
\* return of an empty run, else G4AccumulableManager::Merge
EnterEndOfRunAction(t) ==
    /\ mt
    /\ MayEndRun(t)
    /\ numberOfEvent' =
           IF t # Master
           THEN [numberOfEvent EXCEPT ![Master] = @ + numberOfEvent[t]]
           ELSE numberOfEvent
    /\ IF numberOfEvent[t] = 0
       THEN /\ pc' = [pc EXCEPT ![t] = "done"]
            /\ UNCHANGED <<fTotalEnergyDeposit, fResistEnergyTotal,
                           fSubstrateEnergyTotal, fAboveResistEnergyTotal>>
       ELSE /\ AccumulablesMerge(t)
            /\ pc' = [pc EXCEPT ![t] = "lock"]
    /\ UNCHANGED <<mt, threadRun, fRadialEnergyProfile, f2DEnergyProfile, fNumEvents,
                   masterVars, eventVars, fileVars, totalSteps, historyVars, binVars,
                   reduceVars, fBeamEnergy>>

\* G4AutoLock lock(&arrayMergeMutex) in MergeLocalArrays (a worker) and before
\* the copy in EndOfRunAction (the master)
AcquireMutex(t) ==
    /\ pc[t] = "lock"
    /\ MutexFree(arrayMergeMutex)
    /\ arrayMergeMutex' = t
    /\ mergeIndex' = [mergeIndex EXCEPT ![t] = 0]
    /\ pc' = [pc EXCEPT ![t] = IF SavesResults(t) THEN "copy" ELSE "merge"]
    /\ UNCHANGED <<mt, threadRun, numberOfEvent, runActionVars, masterVars, eventVars,
                   fileVars, totalSteps, historyVars, binVars, fBeamEnergy>>

\* the sizes the loops of MergeLocalArrays run to: those of the local arrays
RadialSize(t) == Cardinality(DOMAIN fRadialEnergyProfile[t])
DepthSize(t) == Cardinality(DOMAIN f2DEnergyProfile[t])

\* one pass of a loop of MergeLocalArrays: element i of the radial profile,
\* then row d of the 2D profile
MergeElement(w) ==
    /\ pc[w] = "merge"
    /\ mergeIndex[w] < RadialSize(w) + DepthSize(w)
    /\ LET i == mergeIndex[w]
           d == mergeIndex[w] - RadialSize(w)
       IN  IF i < RadialSize(w)
           THEN /\ fMasterRadialProfile' =
                       [fMasterRadialProfile EXCEPT ![i] = @ + fRadialEnergyProfile[w][i]]
                /\ UNCHANGED fMaster2DProfile
           ELSE /\ fMaster2DProfile' =
                       [fMaster2DProfile EXCEPT
                           ![d] = MergeRadial(@, f2DEnergyProfile[w][d])]
                /\ UNCHANGED fMasterRadialProfile
    /\ mergeIndex' = [mergeIndex EXCEPT ![w] = @ + 1]
    /\ UNCHANGED <<frameworkVars, runActionVars, fMasterArraysInitialized, eventVars,
                   fileVars, totalSteps, historyVars, binVars, arrayMergeMutex,
                   fBeamEnergy>>

\* the end of MergeLocalArrays: the lock goes out of scope, the worker's
\* EndOfRunAction returns
ReleaseAfterMerge(w) ==
    /\ pc[w] = "merge"
    /\ mergeIndex[w] = RadialSize(w) + DepthSize(w)
    /\ arrayMergeMutex' = NoThread
    /\ merges' = [merges EXCEPT ![w] = @ + 1]
    /\ pc' = [pc EXCEPT ![w] = "done"]
    /\ UNCHANGED <<mt, threadRun, numberOfEvent, runActionVars, masterVars, eventVars,
                   fileVars, totalSteps, accepted, seqRadial, seq2D, exported, nEvents,
                   nSteps, lastStep, binVars, mergeIndex, fBeamEnergy>>

\* the master copies the static arrays under the lock; the lock goes out of
\* scope at the end of the block
CopyMasterArrays(t) ==
    /\ pc[t] = "copy"
    /\ fRadialEnergyProfile' = [fRadialEnergyProfile EXCEPT ![t] = fMasterRadialProfile]
    /\ f2DEnergyProfile' = [f2DEnergyProfile EXCEPT ![t] = fMaster2DProfile]
    /\ arrayMergeMutex' = NoThread
    /\ pc' = [pc EXCEPT ![t] = "save"]
    /\ UNCHANGED <<mt, threadRun, numberOfEvent, fNumEvents, fTotalEnergyDeposit,
                   fResistEnergyTotal, fSubstrateEnergyTotal, fAboveResistEnergyTotal,
                   masterVars, eventVars, fileVars, totalSteps, historyVars, binVars,
                   mergeIndex, fBeamEnergy>>

\* the rest of the master's EndOfRunAction: fNumEvents and SaveResults
SaveAfterCopy(t) ==
    /\ pc[t] = "save"
    /\ UNCHANGED <<mt, threadRun, numberOfEvent, fRadialEnergyProfile, f2DEnergyProfile,
                   fTotalEnergyDeposit, fResistEnergyTotal, fSubstrateEnergyTotal,
                   fAboveResistEnergyTotal, masterVars, eventVars, totalSteps, accepted,
                   seqRadial, seq2D, merges, nEvents, nSteps, lastStep, binVars,
                   reduceVars, fBeamEnergy>>
    /\ SaveResults(t, numberOfEvent[t], fRadialEnergyProfile[t], f2DEnergyProfile[t],
                   <<fTotalEnergyDeposit[t], fResistEnergyTotal[t],
                     fSubstrateEnergyTotal[t], fAboveResistEnergyTotal[t]>>)
    /\ pc' = [pc EXCEPT ![t] = "done"]

\* the steps of the reduction model: one beyond the last bin and below the
\* depth window, one at the first bin and above the depth window
ReduceSteps ==
    { StepAt(Num(1), Point(2 * MAX_RADIUS, 0, minDepth - 1)),
      StepAt(Num(2), Point(MIN_RADIUS, 0, maxDepth + 1)) }

\* the application before ActionInitialization has built any action: no
\* array is sized yet
InitReduce ==
    /\ mt \in BOOLEAN
    /\ pc = [t \in Threads |-> "unbuilt"]
    /\ threadRun = [t \in Threads |-> 0]
    /\ numberOfEvent = [t \in Threads |-> 0]
    /\ fRadialEnergyProfile = [t \in Threads |-> <<>>]
    /\ f2DEnergyProfile = [t \in Threads |-> <<>>]
    /\ fNumEvents = [t \in Threads |-> 0]
    /\ fTotalEnergyDeposit = [t \in Threads |-> 0]
    /\ fResistEnergyTotal = [t \in Threads |-> 0]
    /\ fSubstrateEnergyTotal = [t \in Threads |-> 0]
    /\ fAboveResistEnergyTotal = [t \in Threads |-> 0]
    /\ fMasterRadialProfile = <<>>
    /\ fMaster2DProfile = <<>>
    /\ fMasterArraysInitialized = FALSE
    /\ fRadialEnergyDeposit = [t \in Threads |-> <<>>]
    /\ f2DEnergyDeposit = [t \in Threads |-> <<>>]
    /\ fEnergyDeposit = [t \in Threads |-> 0]
    /\ fTotalTrackLength = [t \in Threads |-> 0]
    /\ fResistEnergy = [t \in Threads |-> 0]
    /\ fSubstrateEnergy = [t \in Threads |-> 0]
    /\ fAboveResistEnergy = [t \in Threads |-> 0]
    /\ psfFile = <<>>
    /\ beamerFile = <<>>
    /\ file2D = <<>>
    /\ summaryFile = <<>>
    /\ totalSteps = 0
    /\ accepted = 0
    /\ seqRadial = ZeroRadial
    /\ seq2D = Zero2D
    /\ merges = [w \in Workers |-> 0]
    /\ exported = FALSE
    /\ nEvents = 0
    /\ nSteps = 0
    /\ lastStep = <<>>
    /\ arrayMergeMutex = NoThread
    /\ mergeIndex = [t \in Threads |-> 0]
    /\ fBeamEnergy = DEFAULT_ENERGY
    /\ BinIdle

Construct == BuildForMaster \/ \E t \in EventThreads : Build(t)
LockedBeginOfRun == \E t \in Threads : LockedBeginOfRunAction(t)
ReduceStepping == \E t \in EventThreads : UserSteppingAction(t, ReduceSteps, TRUE)
SequentialEndOfRun == ~mt /\ EndOfRunAction(Master)
EnterEndOfRun == \E t \in Threads : EnterEndOfRunAction(t)
Acquire == \E t \in Threads : AcquireMutex(t)
MergeLoop == \E w \in Workers : MergeElement(w)
Release == \E w \in Workers : ReleaseAfterMerge(w)
CopyAndSave == CopyMasterArrays(Master) \/ SaveAfterCopy(Master)

NextReduce ==
    \/ Construct
    \/ LockedBeginOfRun
    \/ BeginOfEvent
    \/ ReduceStepping
    \/ EndOfEvent
    \/ SequentialEndOfRun
    \/ EnterEndOfRun
    \/ Acquire
    \/ MergeLoop
    \/ Release
    \/ CopyAndSave

SpecReduce == InitReduce /\ [][NextReduce]_vars

\* what a thread does on its own once the framework has started it: a worker
\* thread builds its actions and begins the run the master has begun; a thread
\* inside an event ends it; a thread whose event loop is over runs its
\* EndOfRunAction up to SaveResults
ThreadProgress(t) ==
    \/ mt /\ t # Master /\ Build(t)
    \/ mt /\ t # Master /\ LockedBeginOfRunAction(t)
    \/ EndOfEventAction(t)
    \/ EnterEndOfRunAction(t)
    \/ AcquireMutex(t)
    \/ t # Master /\ MergeElement(t)
    \/ t # Master /\ ReleaseAfterMerge(t)
    \/ CopyMasterArrays(t)

\* the master does not stay before SaveResults for ever: weak fairness of
\* SaveAfterCopy(Master), which is enabled exactly while the master is at
\* "save" and leaves it
SaveIsTaken == []<>(pc[Master] # "save")

\* the reduction under a scheduler that lets every thread run: a step a
\* thread can take from some point on is taken. Beginning a run or an event
\* and taking a step are the framework's and the physics' choice, not forced.
SpecReduceFair ==
    SpecReduce /\ (\A t \in Threads : WF_vars(ThreadProgress(t))) /\ SaveIsTaken

\* ----------------------------------------------------------------- claims
\* the run is over on the exporting thread and SaveResults ran in it
RunExported == pc[Master] = "done" /\ exported

\* C1: energy conservation: the bins of the exported radial histogram sum to
\* the energies of all accepted deposits of the run.
C1_EnergyConservation ==
    RunExported => SumRadial(fRadialEnergyProfile[Master]) = accepted

\* C2: the exported radial and depth x radial histograms (and the CSV rows)
\* are those of one thread flushing every event, whatever the assignment of
\* the events to the workers and the order of the merges.
C2_OrderThreadInvariance ==
    RunExported =>
        /\ fRadialEnergyProfile[Master] = seqRadial
        /\ f2DEnergyProfile[Master] = seq2D
        /\ psfFile = SaveCSVFormat(seqRadial, numberOfEvent[Master])

\* C2 witness: a multithreaded run exported after two workers merged energy
C2_Witness ==
    /\ mt
    /\ RunExported
    /\ \E v, w \in Workers :
          /\ v # w
          /\ merges[v] = 1 /\ SumRadial(fRadialEnergyProfile[v]) > 0
          /\ merges[w] = 1 /\ SumRadial(fRadialEnergyProfile[w]) > 0

C4_MergeExactlyOnce ==
    \A w \in Workers :
        (mt /\ pc[w] = "done" /\ threadRun[w] = threadRun[Master]) => merges[w] = 1

\* C5: a run that ended with zero events has exported: the CSV holds one
\* all-zero row per radial bin.
C5_EmptyRunExports ==
    (pc[Master] = "done" /\ numberOfEvent[Master] = 0) =>
        /\ exported
        /\ psfFile = SaveCSVFormat(ZeroRadial, 0)

\* the step just handled, and the thread that handled it
StepTaken == nSteps' = nSteps + 1 /\ Len(lastStep') > 0
TheStep == lastStep'[1].step
TheThread == lastStep'[1].thread

\* all of a step's scored position is finite
FinitePosition(s) ==
    LET pos == StepPosition(s)
    IN  IsNum(pos[1]) /\ IsNum(pos[2]) /\ IsNum(pos[3])

\* the grid radius of a step with a finite position
StepRadius(s) ==
    LET pos == StepPosition(s)
    IN  Radius(pos[1], pos[2])[2]

\* a step that AddEnergyDeposit accepts with a radius beyond 2 x MAX_RADIUS
AcceptedBeyondMargin(s) ==
    /\ IsNum(s.edep) /\ s.edep[2] > 0
    /\ FinitePosition(s)
    /\ ~Skipped(s)
    /\ StepRadius(s) > 2 * MAX_RADIUS

\* C6: a deposit accepted with a radius beyond 2 x MAX_RADIUS adds its energy
\* to the last radial bin, NUM_RADIAL_BINS - 1.
C6_OverflowIntoLastBin ==
    [][(StepTaken /\ AcceptedBeyondMargin(TheStep)) =>
          fRadialEnergyDeposit'[TheThread][NUM_RADIAL_BINS - 1] =
              fRadialEnergyDeposit[TheThread][NUM_RADIAL_BINS - 1] + TheStep.edep[2]]_vars

\* the region scalars of a thread's event together
RegionSum(r, sb, a, t) == r[t] + sb[t] + a[t]

\* the step's energy e went into the radial histogram and the region scalars
EnergyReached(t, e) ==
    /\ SumRadial(fRadialEnergyDeposit'[t]) = SumRadial(fRadialEnergyDeposit[t]) + e
    /\ RegionSum(fResistEnergy', fSubstrateEnergy', fAboveResistEnergy', t) =
           RegionSum(fResistEnergy, fSubstrateEnergy, fAboveResistEnergy, t) + e

BeyondMarginInReach(s) ==
    /\ IsNum(s.edep) /\ s.edep[2] > 0
    /\ s.edep[2] >= Threshold(s)
    /\ FinitePosition(s)
    /\ StepRadius(s) > 2 * MAX_RADIUS
    /\ StepRadius(s) <= 10 * MAX_RADIUS

C8_BoundsInvertIndex ==
    (/\ logBin # <<>> /\ binBounds # <<>>
     /\ binIndex = logBin[1]
     /\ 0 < radius /\ radius < MAX_RADIUS) =>
        (binBounds[1] <= radius /\ radius <= binBounds[2])

\* floor(log(r/MIN)/log(MAX/MIN) * (N-1)) = b, stated by its two inequalities
IsFloorLogIndex(r, b) ==
    LET ratio == MAX_RADIUS \div MIN_RADIUS
        m == NUM_RADIAL_BINS - 1
    IN  /\ Pow(ratio, b) * Pow(MIN_RADIUS, m) <= Pow(r, m)
        /\ Pow(r, m) < Pow(ratio, b + 1) * Pow(MIN_RADIUS, m)

C10_BinCoverage ==
    (binBounds # <<>> /\ binIndex \in RadialBins) =>
        /\ binIndex < NUM_RADIAL_BINS - 1 =>
               binBounds[2] = GetBinBoundaries(binIndex + 1)[1]
        /\ binIndex = 0 => binBounds[1] = 0
        /\ binBounds[1] < binBounds[2]
        /\ binIndex = NUM_RADIAL_BINS - 1 => binBounds[2] = MAX_RADIUS

\* C10 witness: the bounds of bin 0 have been computed
C10_Witness ==
    /\ binBounds # <<>>
    /\ binIndex = 0
    /\ binBounds[2] > MIN_RADIUS

\* the call the claims name rejected: edep <= 0, or edep or a coordinate NaN
\* or infinite
ClaimedRejected(s) ==
    \/ LessEq(s.edep, Num(0))
    \/ ~IsNum(s.edep)
    \/ \E i \in 1 .. 3 : ~IsNum(s.prePos[i])

\* C11: a rejected call of AddEnergyDeposit leaves the event's radial and
\* depth x radial histograms, its energy total and its three region scalars
\* unchanged.
C11_RejectedNoOp ==
    [][(StepTaken /\ ClaimedRejected(TheStep)) => UNCHANGED depositVars]_vars

\* C11 witness: a rejected call has returned inside an event that holds energy
C11_Witness ==
    /\ Len(lastStep) > 0
    /\ ClaimedRejected(lastStep[1].step)
    /\ pc[Master] = "event"
    /\ fEnergyDeposit[Master] > 0

\* new = old, plus e if on
Added(new, old, on, e) == new = old + (IF on THEN e ELSE 0)

\* C12: an accepted call adds its energy to exactly one region scalar, resist
\* for 0 <= z <= resistThickness, substrate for z < 0, above for
\* z > resistThickness, and leaves the other two unchanged.
C12_RegionClassification ==
    [][(StepTaken /\ ~ClaimedRejected(TheStep)) =>
          LET e == TheStep.edep[2]
              z == TheStep.prePos[3][2]
              t == TheThread
          IN  /\ Added(fResistEnergy'[t], fResistEnergy[t],
                       0 <= z /\ z <= ActualResistThickness, e)
              /\ Added(fSubstrateEnergy'[t], fSubstrateEnergy[t], z < 0, e)
              /\ Added(fAboveResistEnergy'[t], fAboveResistEnergy[t],
                       z > ActualResistThickness, e)]_vars

\* C12 witness: a call on the resist surface z = 0 has been booked to the resist
C12_Witness ==
    /\ Len(lastStep) > 0
    /\ ~ClaimedRejected(lastStep[1].step)
    /\ lastStep[1].step.prePos[3] = Num(0)
    /\ pc[Master] = "event"
    /\ fResistEnergy[Master] = lastStep[1].step.edep[2]
    /\ fSubstrateEnergy[Master] = 0
    /\ fAboveResistEnergy[Master] = 0

\* the events flushed in the current run, over all threads
FlushedInRun == SumTo(fNumEvents, NumWorkers)

\* C13: every flush (EndOfEventAction) advances the thread's event count by
\* one, no step changes it, and the count the export uses and writes is the
\* number of events all threads flushed in the run.
C13_EventCount ==
    [][/\ \A t \in Threads :
             (pc[t] = "event" /\ pc'[t] = "run") => fNumEvents'[t] = fNumEvents[t] + 1
       /\ nSteps' = nSteps + 1 => UNCHANGED fNumEvents
       /\ (exported' /\ ~exported) =>
             /\ fNumEvents'[Master] = FlushedInRun
             /\ \A k \in 1 .. NUM_RADIAL_BINS : psfFile'[k].events = FlushedInRun
             /\ beamerFile'[1].events = FlushedInRun
             /\ summaryFile'[1].events = FlushedInRun]_vars

\* C13 witness: a multithreaded run exported with two events, one of which, on
\* a worker of its own, deposited no energy
C13_Witness ==
    /\ mt
    /\ RunExported
    /\ fNumEvents[Master] = 2
    /\ \E v, w \in Workers :
          /\ v # w
          /\ fNumEvents[v] = 1 /\ SumRadial(fRadialEnergyProfile[v]) > 0
          /\ fNumEvents[w] = 1 /\ SumRadial(fRadialEnergyProfile[w]) = 0

\* the density the exporters are to give: energy / (area x events), 0 when the
\* area or the event count is 0
GuardedDensity(energy, area, events) ==
    IF area > 0 /\ events > 0 THEN <<energy, area * events>> ELSE <<0, 1>>

\* a value is this fraction, and no division by zero produced it
IsQuotient(value, fraction) == value[2] # 0 /\ FracEq(value, fraction)

\* C14: in every exported state the energy density of every bin in the CSV
\* rows, in the BEAMER profile before its normalisation and in the 2D file is
\* hist[bin] / (area(bin) x eventCount), 0 without area or events, and no
\* quotient of the exporters or the summary has a zero divisor.
C14_GuardedDivision ==
    RunExported =>
        LET hist == fRadialEnergyProfile[Master]
            hist2D == f2DEnergyProfile[Master]
            events == fNumEvents[Master]
            summary == summaryFile[1]
        IN  /\ \A i \in RadialBins :
                  /\ IsQuotient(psfFile[i + 1].energyDensity,
                                GuardedDensity(hist[i], Area(i), events))
                  /\ IsQuotient(BeamerDensity(hist, events)[i],
                                GuardedDensity(hist[i], Area(i), events))
                  /\ NormalizedPSF(hist, events)[i][2] # 0
                  /\ \A d \in DepthBins :
                        IsQuotient(file2D[1][d][i],
                                   GuardedDensity(hist2D[d][i], Area(i), events))
            /\ \A k \in 1 .. Len(beamerFile[1].rows) : beamerFile[1].rows[k].psf[2] # 0
            /\ TotalIntegral(hist, events)[2] # 0
            /\ summary.energyPerEvent[2] # 0
            /\ summary.firstBinShare[2] # 0
            /\ \A k \in 1 .. Len(summary.regionShares) : summary.regionShares[k][2] # 0
            /\ summary.adjustedTotal = 0 =>
                   summary.e50 = 0 /\ summary.e90 = 0 /\ summary.e99 = 0

\* C14 witness: a run of two events exported with energy in the first and in
\* the last radial bin, and a bin without energy between them
C14_Witness ==
    /\ RunExported
    /\ fNumEvents[Master] = 2
    /\ fRadialEnergyProfile[Master][0] > 0
    /\ fRadialEnergyProfile[Master][1] = 0
    /\ fRadialEnergyProfile[Master][NUM_RADIAL_BINS - 1] > 0
    /\ psfFile[NUM_RADIAL_BINS].energyDensity[1] > 0
    /\ file2D[1][GetDepthBin(0)][0][1] > 0

\* the histogram, the event count and the summary of the exported run
ExportedHist == fRadialEnergyProfile[Master]
ExportedEvents == fNumEvents[Master]
ExportedSummary == summaryFile[1]

\* the energy of the bins from .. i
WalkEnergy(hist, from, i) == SumTo(hist, i) - SumTo(hist, from - 1)

\* the cumulative energy of the walk at bin i, divided by the walk's total,
\* has reached num / den
Reaches(hist, from, total, i, num, den) ==
    WalkEnergy(hist, from, i) * den >= num * total

\* the lowest bin at or after from where the walk reaches num / den
FirstReaching(hist, from, total, num, den) ==
    CHOOSE i \in from .. NUM_RADIAL_BINS - 1 :
        /\ Reaches(hist, from, total, i, num, den)
        /\ \A j \in from .. i - 1 : ~Reaches(hist, from, total, j, num, den)

\* C15: for each of the thresholds 0.5, 0.9 and 0.99 the radius in the summary
\* is the centre radius of the lowest bin, at or after the walk's start bin,
\* where the cumulative energy over the walk's total first reaches the
\* threshold; later bins do not change it.
C15_PercentileRadii ==
    (RunExported /\ ExportedSummary.adjustedTotal > 0) =>
        LET from == ExportedSummary.startBin
            total == ExportedSummary.adjustedTotal
            centreOfFirst(num, den) ==
                GetBinRadiusSquared(FirstReaching(ExportedHist, from, total, num, den))
        IN  /\ ExportedSummary.e50 = centreOfFirst(1, 2)
            /\ ExportedSummary.e90 = centreOfFirst(9, 10)
            /\ ExportedSummary.e99 = centreOfFirst(99, 100)

\* C15 witness: a summary over all bins whose three radii are those of bins 1,
\* 2 and 3, each followed by bins that hold energy
C15_Witness ==
    /\ RunExported
    /\ ExportedSummary.startBin = 0
    /\ ExportedSummary.e50 = GetBinRadiusSquared(1)
    /\ ExportedSummary.e90 = GetBinRadiusSquared(2)
    /\ ExportedSummary.e99 = GetBinRadiusSquared(3)
    /\ ExportedHist[3] > 0

\* bin 0 holds more than 0.8 of a positive total radial energy
FirstBinSpike(hist) ==
    SumRadial(hist) > 0 /\ 5 * hist[0] > 4 * SumRadial(hist)

\* C16: if bin 0 holds more than 0.8 of the total radial energy the summary
\* has the exclusion note and its percentile walk starts at bin 1 with the
\* total without bin 0; otherwise the walk starts at bin 0 with the full
\* total and there is no note.
C16_FirstBinExclusion ==
    RunExported =>
        IF FirstBinSpike(ExportedHist)
        THEN /\ ExportedSummary.note
             /\ ExportedSummary.startBin = 1
             /\ ExportedSummary.adjustedTotal = SumRadial(ExportedHist) - ExportedHist[0]
             /\ ExportedSummary.adjustedTotal > 0 =>
                    ExportedSummary.e50 >= GetBinRadiusSquared(1)
        ELSE /\ ~ExportedSummary.note
             /\ ExportedSummary.startBin = 0
             /\ ExportedSummary.adjustedTotal = SumRadial(ExportedHist)

\* C16 witness: a summary with the note, whose 50% radius is that of a bin
\* beyond bin 1 although bin 0 alone holds more than half of the energy
C16_Witness ==
    /\ RunExported
    /\ ExportedSummary.note
    /\ ExportedSummary.startBin = 1
    /\ ExportedSummary.adjustedTotal > 0
    /\ ExportedSummary.e50 > GetBinRadiusSquared(1)

\* C17: for a histogram with positive total energy the summary's radii are
\* ordered, e50 <= e90 <= e99, with or without the first-bin exclusion.
C17_PercentileMonotone ==
    (RunExported /\ SumRadial(ExportedHist) > 0) =>
        /\ ExportedSummary.e50 <= ExportedSummary.e90
        /\ ExportedSummary.e90 <= ExportedSummary.e99

\* C17 witness: a summary with the first-bin exclusion and three different radii
C17_Witness ==
    /\ RunExported
    /\ ExportedSummary.note
    /\ 0 < ExportedSummary.e50
    /\ ExportedSummary.e50 < ExportedSummary.e90
    /\ ExportedSummary.e90 < ExportedSummary.e99

\* the normalised profile of the exported run
ExportedPSF == NormalizedPSF(ExportedHist, ExportedEvents)

\* C18: with events and a positive total radial energy the normalised profile
\* integrates to one, sum of normalizedPSF[i] x area(i) = 1; with a zero total
\* it is all zero and nothing was divided.
C18_IntegralNormalisation ==
    RunExported =>
        IF ExportedEvents > 0 /\ SumRadial(ExportedHist) > 0
        THEN IsQuotient(IntegralTo(ExportedPSF, NUM_RADIAL_BINS - 1), <<1, 1>>)
        ELSE \A i \in RadialBins : ExportedPSF[i] = <<0, 1>>

\* C18 witness: a run of two events exported with energy in two bins, whose
\* raw integral is not one
C18_Witness ==
    /\ RunExported
    /\ ExportedEvents = 2
    /\ ExportedHist[0] > 0
    /\ ExportedHist[NUM_RADIAL_BINS - 1] > ExportedHist[0]
    /\ ~FracEq(TotalIntegral(ExportedHist, ExportedEvents), <<1, 1>>)

\* the bins whose normalised value is not zero
NonZeroBins == {i \in RadialBins : ExportedPSF[i][1] # 0}

\* C19: the rows of the BEAMER file are one row per bin with a non-zero
\* normalised value, in increasing bin order, after one near-origin row
\* (radius MIN_RADIUS / 2, the value of bin 0) exactly if bin 0 is non-zero.
C19_BeamerRows ==
    RunExported =>
        LET rows == beamerFile[1].rows
            origin == IF 0 \in NonZeroBins THEN 1 ELSE 0
        IN  /\ Len(rows) = origin + Cardinality(NonZeroBins)
            /\ origin = 1 =>
                   rows[1] = BeamerRow((MIN_RADIUS * MIN_RADIUS) \div 4, ExportedPSF[0])
            /\ \A i \in NonZeroBins :
                   rows[origin + Cardinality({j \in NonZeroBins : j <= i})] =
                       BeamerRow(GetBinRadiusSquared(i), ExportedPSF[i])

\* C19 witness: a BEAMER file with the near-origin row, no row for the empty
\* bin 1 and a row for bin 2
C19_Witness ==
    /\ RunExported
    /\ 0 \in NonZeroBins
    /\ 1 \notin NonZeroBins
    /\ 2 \in NonZeroBins
    /\ Len(beamerFile[1].rows) = 1 + Cardinality(NonZeroBins)
    /\ beamerFile[1].rows[3].rSquared = GetBinRadiusSquared(2)

\* the fields of the per-thread RunAction and EventAction instances
instanceVars == <<fRadialEnergyProfile, f2DEnergyProfile, fNumEvents,
                  fTotalEnergyDeposit, fResistEnergyTotal, fSubstrateEnergyTotal,
                  fAboveResistEnergyTotal, fRadialEnergyDeposit, f2DEnergyDeposit,
                  fEnergyDeposit, fTotalTrackLength, fResistEnergy, fSubstrateEnergy,
                  fAboveResistEnergy>>

\* a step of the hot path: UserSteppingAction with the AddEnergyDeposit it
\* calls, or the flush at the end of an event
HotPathStep ==
    \/ nSteps' = nSteps + 1
    \/ \E t \in Threads : pc[t] = "event" /\ pc'[t] = "run"

\* nothing but the instances of thread t is written: no static, no master
\* array, no file, no instance of another thread
WritesOnlyOwnState(t) ==
    /\ UNCHANGED <<totalSteps, masterVars, fileVars>>
    /\ \A u \in Threads \ {t} :
           \A k \in 1 .. Len(instanceVars) : instanceVars'[k][u] = instanceVars[k][u]

\* C20: while the workers accumulate, a step of the hot path
\* (UserSteppingAction, AddEnergyDeposit, the flush of an event) writes only
\* state owned by the worker that takes it; nothing it writes is shared
\* between threads.
C20_NoSharedStateOnHotPath ==
    [][(mt /\ HotPathStep) =>
          \E t \in Workers : pc[t] = "event" /\ WritesOnlyOwnState(t)]_vars

\* b is floor((z - minDepth) / depthRange x NUM_DEPTH_BINS) clamped to the
\* bins 0 .. NUM_DEPTH_BINS - 1, for z inside the window
IsClampedFloorDepth(z, b) ==
    LET scaled == (z - minDepth) * NUM_DEPTH_BINS
    IN  \/ b * depthRange <= scaled /\ scaled < (b + 1) * depthRange
        \/ b = NUM_DEPTH_BINS - 1 /\ scaled >= NUM_DEPTH_BINS * depthRange
        \/ b = 0 /\ scaled < 0

\* C29: GetDepthBin gives every depth a bin of 0 .. NUM_DEPTH_BINS - 1: bin 0
\* below the window, the last bin above it, the clamped floor of
\* (z - minDepth) / depthRange x NUM_DEPTH_BINS inside; and it is
\* non-decreasing in z.
C29_DepthBinning ==
    depthIndex # <<>> =>
        /\ \A k \in 1 .. 2 :
              LET z == depthZ[k]
                  b == depthIndex[k]
              IN  /\ b \in DepthBins
                  /\ z < minDepth => b = 0
                  /\ z > maxDepth => b = NUM_DEPTH_BINS - 1
                  /\ (minDepth <= z /\ z <= maxDepth) => IsClampedFloorDepth(z, b)
        /\ depthZ[1] <= depthZ[2] => depthIndex[1] <= depthIndex[2]

\* C29 witness: GetDepthBin applied below the window and on its upper edge
C29_Witness ==
    /\ depthIndex # <<>>
    /\ depthZ[1] < minDepth
    /\ depthZ[2] = maxDepth
    /\ depthIndex = <<0, NUM_DEPTH_BINS - 1>>

\* C24: at the end of an exported run the resist, substrate and above-resist
\* totals add up to the total energy that SaveSummary divides them by, and
\* no region share written to the summary exceeds 100%.
C24_RegionTotalsConsistent ==
    RunExported =>
        /\ fResistEnergyTotal[Master] + fSubstrateEnergyTotal[Master]
               + fAboveResistEnergyTotal[Master] = fTotalEnergyDeposit[Master]
        /\ \A k \in 1 .. Len(summaryFile[1].regionShares) :
               LET share == summaryFile[1].regionShares[k]
               IN  share[2] # 0 /\ share[1] <= share[2]

\* the energy of radial bin r summed over the depth bins 0 .. d of h2D
RECURSIVE DepthSumTo(_, _, _)
DepthSumTo(h2D, r, d) ==
    IF d < 0 THEN 0 ELSE h2D[d][r] + DepthSumTo(h2D, r, d - 1)

\* every radial bin of h is the sum over all depth bins of its column of h2D
Consistent2D(h2D, h) ==
    \A r \in RadialBins : DepthSumTo(h2D, r, NUM_DEPTH_BINS - 1) = h[r]

\* C25: in every event accumulator, every thread's profile and the master
\* arrays, each radial bin of the 1D histogram is the sum over the depth bins
\* of the depth x radial histogram.
C25_Consistency1D2D ==
    /\ \A t \in Threads :
          /\ Consistent2D(f2DEnergyDeposit[t], fRadialEnergyDeposit[t])
          /\ Consistent2D(f2DEnergyProfile[t], fRadialEnergyProfile[t])
    /\ Consistent2D(fMaster2DProfile, fMasterRadialProfile)

\* C25 witness: the master arrays after the merges of two workers, with
\* energy in two depth bins
C25_Witness ==
    /\ mt
    /\ \A w \in 1 .. 2 : merges[w] = 1 /\ SumRadial(fRadialEnergyProfile[w]) > 0
    /\ \E d, e \in DepthBins :
          /\ d # e
          /\ SumRadial(fMaster2DProfile[d]) > 0
          /\ SumRadial(fMaster2DProfile[e]) > 0

\* thread t begins an event (BeginOfEventAction) / ends one (EndOfEventAction)
BeginsEvent(t) == pc[t] = "run" /\ pc'[t] = "event"
FlushesEvent(t) == pc[t] = "event" /\ pc'[t] = "run"

\* the element-wise sum of two radial, and of two depth x radial, histograms
RadialSum(a, b) == [i \in RadialBins |-> a[i] + b[i]]
Sum2D(a, b) == [d \in DepthBins |-> RadialSum(a[d], b[d])]

\* C23: BeginOfEventAction leaves every accumulator of the event at zero, and
\* EndOfEventAction adds each of them (radial histogram, depth x radial
\* histogram, the three region scalars, the event total) once to the
\* thread's profile and totals.
C23_ResetAndSingleFlush ==
    [][\A t \in Threads :
          /\ BeginsEvent(t) =>
                /\ fRadialEnergyDeposit'[t] = ZeroRadial
                /\ f2DEnergyDeposit'[t] = Zero2D
                /\ fEnergyDeposit'[t] = 0
                /\ fResistEnergy'[t] = 0
                /\ fSubstrateEnergy'[t] = 0
                /\ fAboveResistEnergy'[t] = 0
          /\ FlushesEvent(t) =>
                /\ fRadialEnergyProfile'[t] =
                       RadialSum(fRadialEnergyProfile[t], fRadialEnergyDeposit[t])
                /\ f2DEnergyProfile'[t] = Sum2D(f2DEnergyProfile[t], f2DEnergyDeposit[t])
                /\ fResistEnergyTotal'[t] = fResistEnergyTotal[t] + fResistEnergy[t]
                /\ fSubstrateEnergyTotal'[t] =
                       fSubstrateEnergyTotal[t] + fSubstrateEnergy[t]
                /\ fAboveResistEnergyTotal'[t] =
                       fAboveResistEnergyTotal[t] + fAboveResistEnergy[t]
                /\ fTotalEnergyDeposit'[t] = fTotalEnergyDeposit[t] + fEnergyDeposit[t]
                /\ UNCHANGED eventVars]_vars

\* the master thread begins a run / worker w merges into the master arrays
MasterBeginsRun == threadRun'[Master] = threadRun[Master] + 1
WorkerMerges(w) == merges'[w] = merges[w] + 1

\* C22: the master arrays change only in the reset of the master's
\* BeginOfRunAction and in merges of workers of the current run; once the run
\* is exported they stay as they are until the next reset; every thread
\* starts a run with zero arrays and totals; and the profile exported for a
\* run holds the energy flushed in that run only.
C22_RunIsolation ==
    [][/\ ~UNCHANGED <<fMasterRadialProfile, fMaster2DProfile>> =>
             \/ /\ MasterBeginsRun
                /\ fMasterRadialProfile' = ZeroRadial
                /\ fMaster2DProfile' = Zero2D
             \/ \E w \in Workers :
                   /\ WorkerMerges(w)
                   /\ threadRun[w] = threadRun[Master]
                   /\ pc[Master] = "run"
                   /\ ~exported
       /\ (exported /\ ~MasterBeginsRun) =>
             UNCHANGED <<fMasterRadialProfile, fMaster2DProfile>>
       /\ \A t \in Threads :
             threadRun'[t] = threadRun[t] + 1 =>
                 /\ fRadialEnergyProfile'[t] = ZeroRadial
                 /\ f2DEnergyProfile'[t] = Zero2D
                 /\ fNumEvents'[t] = 0
                 /\ fTotalEnergyDeposit'[t] = 0
                 /\ fResistEnergyTotal'[t] = 0
                 /\ fSubstrateEnergyTotal'[t] = 0
                 /\ fAboveResistEnergyTotal'[t] = 0
                 /\ t = Master =>
                        fMasterRadialProfile' = ZeroRadial /\ fMaster2DProfile' = Zero2D
       /\ (exported' /\ ~exported) =>
             /\ fRadialEnergyProfile'[Master] = seqRadial
             /\ f2DEnergyProfile'[Master] = seq2D
             /\ SumRadial(fRadialEnergyProfile'[Master]) <= accepted]_vars

\* C22 witness: the second run of a multithreaded application exported with
\* the one deposit of its one event, after a first run with an event and a step
C22_Witness ==
    /\ mt
    /\ RunExported
    /\ threadRun[Master] = 2
    /\ nEvents = 2
    /\ nSteps = 2
    /\ fNumEvents[Master] = 1
    /\ accepted = 1
    /\ SumRadial(fRadialEnergyProfile[Master]) = 1

\* C26: if the exported radial histogram holds energy, the three radii of the
\* summary are strictly positive; a radius of 0 is reported only when the
\* total radial energy is zero.
C26_PercentilesDefined ==
    (RunExported /\ SumRadial(ExportedHist) > 0) =>
        /\ ExportedSummary.e50 > 0
        /\ ExportedSummary.e90 > 0
        /\ ExportedSummary.e99 > 0

\* C30: the beam energy in the header of the BEAMER file is the beam energy
\* configured on the primary generator, in a sequential and in a
\* multithreaded run.
C30_HeaderBeamEnergy ==
    RunExported => beamerFile[1].beamEnergy = fBeamEnergy

\* ------------------------------------------------------------------- C27
\* the bins AddEnergyDeposit computes for the step just taken
WrittenRadialBin ==
    LET pos == StepPosition(TheStep)
    IN  GetLogBin(BinnedRadius(Radius(pos[1], pos[2])[2]))
WrittenDepthBin == GetDepthBin(StepPosition(TheStep)[3][2])

\* an accumulation step changes a histogram only at the computed bins, and
\* these are indices of the arrays as the EventAction constructor sized them
AccumulatesInRange ==
    StepTaken =>
        \A t \in Threads :
            /\ fRadialEnergyDeposit'[t] # fRadialEnergyDeposit[t] =>
                   /\ DOMAIN fRadialEnergyDeposit[t] = RadialBins
                   /\ WrittenRadialBin \in RadialBins
                   /\ \A i \in RadialBins \ {WrittenRadialBin} :
                          fRadialEnergyDeposit'[t][i] = fRadialEnergyDeposit[t][i]
            /\ f2DEnergyDeposit'[t] # f2DEnergyDeposit[t] =>
                   /\ DOMAIN f2DEnergyDeposit[t] = DepthBins
                   /\ WrittenDepthBin \in DepthBins
                   /\ DOMAIN f2DEnergyDeposit[t][WrittenDepthBin] = RadialBins
                   /\ WrittenRadialBin \in RadialBins
                   /\ \A d \in DepthBins \ {WrittenDepthBin} :
                          f2DEnergyDeposit'[t][d] = f2DEnergyDeposit[t][d]

\* a pass of the loops of MergeLocalArrays finds the static arrays sized, and
\* its index inside them
MergesInRange ==
    \A w \in Workers :
        (pc[w] = "merge" /\ mergeIndex'[w] = mergeIndex[w] + 1) =>
            /\ fMasterArraysInitialized
            /\ DOMAIN fMasterRadialProfile = RadialBins
            /\ DOMAIN fMaster2DProfile = DepthBins
            /\ \A d \in DepthBins : DOMAIN fMaster2DProfile[d] = RadialBins
            /\ IF mergeIndex[w] < RadialSize(w)
               THEN mergeIndex[w] \in DOMAIN fMasterRadialProfile
               ELSE /\ mergeIndex[w] - RadialSize(w) \in DOMAIN fMaster2DProfile
                    /\ DOMAIN f2DEnergyProfile[w][mergeIndex[w] - RadialSize(w)]
                           \subseteq RadialBins

\* C27: every index used on the accumulation and merge paths is in range:
\* AddEnergyDeposit writes only radial bins 0..N-1 and depth bins 0..D-1, and
\* whenever a worker runs the loops of MergeLocalArrays the static arrays are
\* already sized N and D x N with fMasterArraysInitialized true, in the
\* sequential and the multithreaded construction order
C27_IndexSafety == [][AccumulatesInRange /\ MergesInRange]_vars

\* a worker that scored in the last depth bin is in the last pass of its merge
C27_Witness ==
    \E w \in Workers :
        /\ mt
        /\ pc[w] = "merge"
        /\ mergeIndex[w] = RadialSize(w) + DepthSize(w) - 1
        /\ fMasterArraysInitialized
        /\ SumRadial(f2DEnergyProfile[w][NUM_DEPTH_BINS - 1]) > 0
        /\ SumRadial(f2DEnergyProfile[w][0]) > 0

\* ------------------------------------------------------------------- C21
\* thread t is between its G4AutoLock and the end of the locked block
InCriticalSection(t) == pc[t] \in {"merge", "copy"}
HoldsMutex(t) == arrayMergeMutex = t

\* worker w runs a pass of the loops of MergeLocalArrays
MergePass(w) == pc[w] = "merge" /\ mergeIndex'[w] = mergeIndex[w] + 1
\* the master copies the static arrays
MasterCopies == pc[Master] = "copy" /\ pc'[Master] = "save"
\* the master runs a handler that takes the lock, uses the static arrays and
\* releases it: the RunAction constructor or BeginOfRunAction
MasterLockedHandler ==
    /\ pc[Master] \in {"unbuilt", "idle", "done"}
    /\ pc'[Master] \in {"idle", "run"}

\* C21: every access to the static master arrays happens under
\* arrayMergeMutex. A thread inside a locked block holds the mutex, so at most
\* one thread is inside one; the master arrays change only in a pass of the
\* merge of the worker that holds the mutex, or in a handler of the master
\* that found the mutex free and no worker merging; no other worker is
\* merging while a worker runs a pass; and the master copies while it holds
\* the mutex, no worker is merging, and the arrays hold every flushed event.
C21_ExclusiveAccess ==
    [][/\ \A t \in Threads : InCriticalSection(t) => HoldsMutex(t)
       /\ ~UNCHANGED <<fMasterRadialProfile, fMaster2DProfile>> =>
             \/ \E w \in Workers :
                   /\ MergePass(w)
                   /\ HoldsMutex(w)
                   /\ arrayMergeMutex' = w
                   /\ \A v \in Threads \ {w} : ~InCriticalSection(v)
             \/ /\ MasterLockedHandler
                /\ arrayMergeMutex = NoThread
                /\ \A v \in Threads : ~InCriticalSection(v)
       /\ \A w \in Workers : MergePass(w) => HoldsMutex(w)
       /\ MasterCopies =>
             /\ HoldsMutex(Master)
             /\ \A w \in Workers : ~InCriticalSection(w) /\ pc[w] = "done"
             /\ fMasterRadialProfile = seqRadial
             /\ fMaster2DProfile = seq2D
             /\ fRadialEnergyProfile'[Master] = seqRadial
             /\ f2DEnergyProfile'[Master] = seq2D]_vars

\* C21 witness: a worker with energy is part-way through its merge, holding
\* the mutex, while another worker with energy waits for the mutex
C21_Witness ==
    \E v, w \in Workers :
        /\ v # w
        /\ pc[v] = "merge"
        /\ HoldsMutex(v)
        /\ mergeIndex[v] > 0
        /\ mergeIndex[v] < RadialSize(v)
        /\ SumRadial(fRadialEnergyProfile[v]) > 0
        /\ pc[w] = "lock"
        /\ SumRadial(fRadialEnergyProfile[w]) > 0

\* ------------------------------------------------------------------- C28
\* worker w has reached EndOfRunAction in the run the master is in
ReachedEndOfRunAction(w) ==
    /\ mt
    /\ pc[w] \in {"lock", "merge", "done"}
    /\ threadRun[w] = threadRun[Master]
\* worker w has acquired the mutex, completed its merge and released the lock
MergedAndReleased(w) == merges[w] = 1 /\ ~HoldsMutex(w) /\ pc[w] = "done"
\* every worker of a multithreaded run is out of its EndOfRunAction
WorkersFinished ==
    /\ mt
    /\ pc[Master] = "run"
    /\ \A w \in Workers : pc[w] = "done" /\ threadRun[w] = threadRun[Master]
\* a thread that holds the mutex does not wait for a mutex
NoWaitUnderLock == \A t \in Threads : HoldsMutex(t) => InCriticalSection(t)

\* C28: under fair scheduling every worker that reaches EndOfRunAction
\* eventually acquires arrayMergeMutex, completes its merge and releases the
\* lock, and the master eventually copies the master arrays and exports; a
\* thread that holds the lock never waits for a lock.
C28_ReductionTerminates ==
    /\ \A w \in Workers : ReachedEndOfRunAction(w) ~> MergedAndReleased(w)
    /\ WorkersFinished ~> (exported /\ pc[Master] = "done")
    /\ []NoWaitUnderLock


====
